---- MODULE Spec2Model ----
(***************************************************************************)
(* Verification model of the embroidery-filter pipeline.                   *)
(*                                                                         *)
(* Rasters are sequences of pixels in row-major order (index 1 is the      *)
(* pixel at x = 0, y = 0).  An RGBA pixel is a record [r, g, b, a]; a       *)
(* one-channel raster is a sequence of bytes.                              *)
(*                                                                         *)
(* Specifications:                                                         *)
(*   SpecQuant   quantizeColors followed by computeWarnings, as called by  *)
(*               processEmbroidery, over banded RGBA images                *)
(*   SpecOrient  the gradient binning and orientation field of             *)
(*               computeOrientation, over raw convolution buffers          *)
(*   SpecRim     the rim band of detectEdges and the thin-stroke check of  *)
(*               computeWarnings, over binary alpha masks                  *)
(*   Spec        one process serving requests that share the tile-sheet,   *)
(*               mask and texture caches                                   *)
(*   SpecCache   the tile-sheet and mask caches under lookups of many      *)
(*               frames while time passes                                  *)
(*   SpecRoute   one request from the route's validation through the       *)
(*               stages of processEmbroidery to its response               *)
(*   SpecDash    the dashing of the edge map in detectEdges, over one-row  *)
(*               edge maps and every thread thickness                      *)
(*   SpecRandom  calls of the generator seededRandom returns               *)
(*   SpecDownscale  the sizes of computeOrientation's analysis buffers    *)
(***************************************************************************)
EXTENDS Integers, Sequences, FiniteSets, TLC

\* ------------------------------------------------------------------ bounds
\* Quantizer inputs: images are 1 or 2 rows high and made of vertical bands.
MaxBands == 3
\* Largest requested palette size explored (the server admits up to 12).
MaxColorsExplored == 3

\* Orientation inputs: analysis buffers are one row of up to this many bytes.
MaxGradientBytes == 4

\* Process model: the number of processEmbroidery calls one behaviour serves;
\* they may overlap at their await points.
NumSlots == 2
\* Rim-band inputs: alpha masks of every width x height of at most this many
\* pixels.
MaxMaskPixels == 6
\* Edge-dashing inputs: one-row edge maps of up to this many pixels.
MaxEdgeWidth == 21
MaxCalls == 4

\* ------------------------------------------------------- program constants
\* server option clamp: threadThickness in [1, 10]
MinThickness == 1
MaxThickness == 10
\* server option clamp: maxColors in [2, 12]
MinColors == 2
\* extractPaletteFast: "Sample every 4th pixel"
SampleStep == 4
\* extractPaletteFast: colours are rounded to multiples of 16
RoundTo == 16
\* quantizeColors: targetMax = min(400, max(w, h) * 0.6)
QuantTargetCap == 400

\* ------------------------------------------------------------ arithmetic
Min2(a, b) == IF a <= b THEN a ELSE b
Max2(a, b) == IF a >= b THEN a ELSE b
\* Math.ceil(a / b) for a >= 0, b > 0
CeilDiv(a, b) == (a + b - 1) \div b
\* Math.round(a / b) for a >= 0, b > 0 (halves round up)
RoundDiv(a, b) == (2 * a + b) \div (2 * b)
\* A store into a Buffer / Uint8Array keeps the low 8 bits.
ToUint8(v) == v % 256

VARIABLES
  quant,    \* SpecQuant: the quantizer request and its results
  orient,   \* SpecOrient: the orientation request and its results
  rim,      \* SpecRim: the alpha-mask request and its results
  tileSheetCache, maskCache, globalTextureCache,  \* Spec: process-wide caches
  reqs,     \* Spec: the processEmbroidery calls, one per slot
  variant,  \* Spec: which compositeImage the build links ("full" / "stride2")
  clock     \* SpecCache: the time and the bookkeeping of the cache workload

vars == <<quant, orient, rim, tileSheetCache, maskCache, globalTextureCache,
          reqs, variant, clock>>

procVars == <<tileSheetCache, maskCache, globalTextureCache, reqs, variant>>

\* =========================================================================
\* Quantizer (quantizeColors, extractPaletteFast, applyPaletteToImage)
\* =========================================================================

Pixel(r, g, b, a) == [r |-> r, g |-> g, b |-> b, a |-> a]

\* The pixel values the explored images are painted with.
TestPixels ==
  { Pixel(255, 255, 255, 255), Pixel(0, 0, 0, 255), Pixel(250, 8, 7, 128),
    Pixel(120, 120, 120, 0), Pixel(120, 120, 120, 255), Pixel(8, 248, 100, 255) }

\* Width of one band: SampleStep downscaled pixels at downscale factor 2.
BandWidth == 2 * SampleStep

\* An image of n vertical bands and h rows; band k (0-based) is filled with
\* bandPx[k + 1].
BandedImage(bandPx, h) ==
  LET w == BandWidth * Len(bandPx)
  IN [ data |-> [i \in 1..(h * w) |-> bandPx[(((i - 1) % w) \div BandWidth) + 1]],
       info |-> [width |-> w, height |-> h, channels |-> 4] ]

\* quantizeColors: scale = max(1, ceil(max(w,h) / min(400, max(w,h) * 0.6))).
\* max(w,h) * 0.6 is 3m/5; it is the smaller term exactly when 3m <= 2000.
QuantScale(w, h) ==
  LET m == Max2(w, h)
  IN Max2(1, IF 3 * m <= 5 * QuantTargetCap
             THEN CeilDiv(5 * m, 3 * m)
             ELSE CeilDiv(m, QuantTargetCap))

\* sharp resize, fit 'inside': the largest size of the source's aspect ratio
\* that fits in tw x th.
FitInside(w, h, tw, th) ==
  IF tw * h <= th * w
  THEN [width |-> tw, height |-> Max2(1, RoundDiv(h * tw, w))]
  ELSE [width |-> Max2(1, RoundDiv(w * th, h)), height |-> th]

\* sharp resize with kernel 'nearest': every output pixel is a copy of a
\* source pixel.  phase = 0 samples at the cell's corner, phase = 1 at its
\* centre; which one the codec uses is not fixed by the repository.
ResizeNearest(data, w, h, ow, oh, phase) ==
  [o \in 1..(ow * oh) |->
     LET ox == (o - 1) % ow
         oy == (o - 1) \div ow
         sx == Min2(w - 1, ((2 * ox + phase) * w) \div (2 * ow))
         sy == Min2(h - 1, ((2 * oy + phase) * h) \div (2 * oh))
     IN data[sy * w + sx + 1]]

\* Math.round(c / 16) * 16
RoundChannel(c) == RoundDiv(c, RoundTo) * RoundTo

\* The frequency-map key and colour of one sampled pixel (a || 255).
RoundedColor(px) ==
  Pixel(RoundChannel(px.r), RoundChannel(px.g), RoundChannel(px.b),
        IF px.a = 0 THEN 255 ELSE px.a)

\* Pixel indices (1-based) visited by "for (i = 0; i < length; i += 4 * step)".
SampledIndices(n) == { i \in 1..n : (i - 1) % SampleStep = 0 }

\* colorFreq after visiting the pixels 1, 1 + step, ... up to index i:
\* a sequence of [color, count] in insertion order.
RECURSIVE ColorFreq(_, _)
ColorFreq(rgba, i) ==
  IF i < 1 THEN <<>>
  ELSE LET prev == ColorFreq(rgba, i - SampleStep)
           c == RoundedColor(rgba[i])
           hit == { k \in 1..Len(prev) : prev[k].color = c }
       IN IF hit = {}
          THEN Append(prev, [color |-> c, count |-> 1])
          ELSE LET k == CHOOSE k \in hit : TRUE
               IN [prev EXCEPT ![k].count = @ + 1]

\* Array.prototype.sort((a, b) => b.count - a.count): stable, descending.
RECURSIVE SortByCount(_)
SortByCount(entries) ==
  IF entries = <<>> THEN <<>>
  ELSE LET top == CHOOSE k \in 1..Len(entries) :
                    /\ \A j \in 1..Len(entries) : entries[j].count <= entries[k].count
                    /\ \A j \in 1..(k - 1) : entries[j].count < entries[k].count
           rest == [j \in 1..(Len(entries) - 1) |->
                      IF j < top THEN entries[j] ELSE entries[j + 1]]
       IN <<entries[top]>> \o SortByCount(rest)

\* A slice that keeps one entry too many.
PaletteSliceOneMore(maxColors) == maxColors + 1

\* .slice(0, maxColors)
PaletteSliceLimit(maxColors) == maxColors

extractPaletteFast(rgba, maxColors) ==
  LET n == Len(rgba)
      last == ((n - 1) \div SampleStep) * SampleStep + 1
      sorted == SortByCount(ColorFreq(rgba, last))
      kept == Min2(Len(sorted), PaletteSliceLimit(maxColors))
  IN [k \in 1..kept |-> sorted[k].color]

\* The palette entry applyPaletteToImage picks for one pixel: the first entry
\* at the least squared RGB distance.
SqDist(px, c) ==
  (px.r - c.r) * (px.r - c.r) + (px.g - c.g) * (px.g - c.g)
    + (px.b - c.b) * (px.b - c.b)

ClosestColor(px, palette) ==
  LET k == CHOOSE k \in 1..Len(palette) :
             /\ \A j \in 1..Len(palette) : SqDist(px, palette[k]) <= SqDist(px, palette[j])
             /\ \A j \in 1..(k - 1) : SqDist(px, palette[j]) > SqDist(px, palette[k])
  IN palette[k]

\* A remap that writes the palette entry's alpha instead of the pixel's.
PaletteEntryAlpha(px, closest) == closest.a

\* quantized[i + 3] = a
QuantizedAlpha(px, closest) == px.a

\* One pixel of the remapped buffer: the stores go into a Buffer.
QuantizedPixel(px, palette) ==
  LET c == ClosestColor(px, palette)
  IN Pixel(ToUint8(c.r), ToUint8(c.g), ToUint8(c.b), ToUint8(QuantizedAlpha(px, c)))

applyPaletteToImage(data, palette) ==
  [i \in 1..Len(data) |-> QuantizedPixel(data[i], palette)]

\* quantizeColors(normalized, maxColors).  A resize to a zero width or height
\* is rejected by the codec and surfaces as "Color quantization failed".
quantizeColors(normalized, maxColors, phase) ==
  LET w == normalized.info.width
      h == normalized.info.height
      scale == QuantScale(w, h)
      tw == w \div scale
      th == h \div scale
  IN IF tw < 1 \/ th < 1
     THEN [ok |-> FALSE]
     ELSE LET ds == FitInside(w, h, tw, th)
              downscaled == ResizeNearest(normalized.data, w, h, ds.width, ds.height, phase)
              usedPalette == extractPaletteFast(downscaled, maxColors)
          IN [ ok |-> TRUE,
               data |-> applyPaletteToImage(normalized.data, usedPalette),
               info |-> [normalized.info EXCEPT !.channels = 4],
               palette |-> usedPalette,
               paletteSize |-> Len(usedPalette) ]

\* =========================================================================
\* Warning analyzer (distanceTransform, extractAlpha, computeWarnings)
\* =========================================================================

\* dist is a Float32Array.  A distance is kept as its number of Float32
\* steps of 2^-23 (the spacing of Float32 values in [1, 2)), so 1 is F32One.
\* Every value the passes store is 0 or at least 1, hence a whole number of
\* such steps.
F32One == 8388608

\* The spacing of Float32 values around n, in steps of 2^-23.
RECURSIVE F32Ulp(_)
F32Ulp(n) == IF n < 2 * F32One THEN 1 ELSE 2 * F32Ulp(n \div 2)

\* The store into the Float32Array: n steps (plus a fraction of a step below
\* one half when `above`) rounded to the nearest Float32, ties to even.
F32Round(n, above) ==
  LET u == F32Ulp(n)
      r == n % u
      down == n - r
  IN IF 2 * r > u \/ (2 * r = u /\ (above \/ (down \div u) % 2 = 1))
     THEN down + u ELSE down

\* The sentinel 1e9 is kept as written, not in steps: a Float32Array cannot
\* tell 1e9 + 1.4 from 1e9, so adding a cost to the sentinel leaves it
\* unchanged.  Every distance between pixels of the grids explored is far
\* below it.
DistInf == 1000000000
\* + 1
OrthoCost == 8388608
\* + 1.4: 1.4 * 2^23 = 11744051.2, kept as the whole steps; the remaining
\* fifth of a step is what F32Round is told by `above`.
DiagCost == 11744051

DistAdd(d, c) ==
  IF d >= DistInf THEN DistInf ELSE F32Round(d + c, c = DiagCost)

\* dist[i] = src[i] > 0 ? 0 : inf
DistSeed(src) == [i \in 1..Len(src) |-> IF src[i] > 0 THEN 0 ELSE DistInf]

\* One step of the forward pass at pixel (x, y): the minimum over the pixel
\* itself and its left, upper, upper-left and upper-right neighbours.
ForwardBest(dist, x, y, w) ==
  LET i == y * w + x + 1
      c1 == IF x > 0 THEN DistAdd(dist[i - 1], OrthoCost) ELSE DistInf
      c2 == IF y > 0 THEN DistAdd(dist[i - w], OrthoCost) ELSE DistInf
      c3 == IF x > 0 /\ y > 0 THEN DistAdd(dist[i - w - 1], DiagCost) ELSE DistInf
      c4 == IF x + 1 < w /\ y > 0 THEN DistAdd(dist[i - w + 1], DiagCost) ELSE DistInf
  IN Min2(Min2(dist[i], c1), Min2(c2, Min2(c3, c4)))

\* for (let x = 0; x < width; x++) of the forward pass, from column x on.
RECURSIVE ForwardRow(_, _, _, _)
ForwardRow(dist, x, y, w) ==
  IF x >= w \/ Len(dist) = 0 THEN dist
  ELSE ForwardRow([dist EXCEPT ![y * w + x + 1] = ForwardBest(dist, x, y, w)],
                  x + 1, y, w)

\* for (let y = 0; y < height; y++) of the forward pass, from row y on.
RECURSIVE DistForward(_, _, _, _)
DistForward(dist, y, w, h) ==
  IF y >= h \/ Len(dist) = 0 THEN dist
  ELSE DistForward(ForwardRow(dist, 0, y, w), y + 1, w, h)

\* A backward step that forgets the two diagonal neighbours.
BackwardBestNoDiagonal(dist, x, y, w, h) ==
  LET i == y * w + x + 1
      c1 == IF x + 1 < w THEN DistAdd(dist[i + 1], OrthoCost) ELSE DistInf
      c2 == IF y + 1 < h THEN DistAdd(dist[i + w], OrthoCost) ELSE DistInf
  IN Min2(dist[i], Min2(c1, c2))

\* One step of the backward pass at pixel (x, y): the minimum over the pixel
\* itself and its right, lower, lower-right and lower-left neighbours.
BackwardBest(dist, x, y, w, h) ==
  LET i == y * w + x + 1
      c1 == IF x + 1 < w THEN DistAdd(dist[i + 1], OrthoCost) ELSE DistInf
      c2 == IF y + 1 < h THEN DistAdd(dist[i + w], OrthoCost) ELSE DistInf
      c3 == IF x + 1 < w /\ y + 1 < h THEN DistAdd(dist[i + w + 1], DiagCost) ELSE DistInf
      c4 == IF x > 0 /\ y + 1 < h THEN DistAdd(dist[i + w - 1], DiagCost) ELSE DistInf
  IN Min2(Min2(dist[i], c1), Min2(c2, Min2(c3, c4)))

\* for (let x = width - 1; x >= 0; x--) of the backward pass, from column x on.
RECURSIVE BackwardRow(_, _, _, _, _)
BackwardRow(dist, x, y, w, h) ==
  IF x < 0 \/ Len(dist) = 0 THEN dist
  ELSE BackwardRow([dist EXCEPT ![y * w + x + 1] = BackwardBest(dist, x, y, w, h)],
                   x - 1, y, w, h)

\* for (let y = height - 1; y >= 0; y--) of the backward pass, from row y on.
RECURSIVE DistBackward(_, _, _, _)
DistBackward(dist, y, w, h) ==
  IF y < 0 \/ Len(dist) = 0 THEN dist
  ELSE DistBackward(BackwardRow(dist, w - 1, y, w, h), y - 1, w, h)

distanceTransform(src, w, h) ==
  DistBackward(DistForward(DistSeed(src), 0, w, h), h - 1, w, h)

\* extractAlpha on a 4-channel raster.
extractAlpha(data) == [i \in 1..Len(data) |-> data[i].a]

\* A warning string: its fixed text and the number formatted into it (0 when
\* the text has none).
Warning(text, n) == [text |-> text, n |-> n]
ThinStrokesWarning == Warning("Thin strokes may not embroider cleanly", 0)
DenseDetailWarning == Warning("Dense detail may fill in on fabric", 0)
ReducedColorsWarning(maxColors) == Warning("Reduced colors to", maxColors)

\* The mask whose distance transform computeWarnings takes.
WarningDistanceSource(alphaMask) == alphaMask

\* minStroke (in Float32 steps), or DistInf when no pixel is opaque.
MinStroke(alphaMask, w, h) ==
  LET distIn == distanceTransform(WarningDistanceSource(alphaMask), w, h)
      opaque == { i \in 1..Len(alphaMask) : alphaMask[i] # 0 }
  IN IF opaque = {} THEN DistInf
     ELSE LET i == CHOOSE i \in opaque : \A j \in opaque : distIn[i] <= distIn[j]
          IN 2 * distIn[i]

\* paletteSize > maxColors
PaletteWasReduced(maxColors, paletteSize) == paletteSize > maxColors

computeWarnings(alphaMask, w, h, threadThickness, edgeMask, maxColors, paletteSize) ==
  LET samples == Cardinality({ i \in 1..Len(alphaMask) : alphaMask[i] # 0 })
      thin == samples > 0 /\ MinStroke(alphaMask, w, h) < F32One * threadThickness
      on == Cardinality({ i \in 1..Len(edgeMask) : edgeMask[i] # 0 })
      dense == 100 * on > 12 * Len(edgeMask)
      reduced == PaletteWasReduced(maxColors, paletteSize)
  IN (IF thin THEN <<ThinStrokesWarning>> ELSE <<>>)
       \o (IF dense THEN <<DenseDetailWarning>> ELSE <<>>)
       \o (IF reduced THEN <<ReducedColorsWarning(maxColors)>> ELSE <<>>)

SeqRange(q) == { q[i] : i \in 1..Len(q) }

\* =========================================================================
\* SpecQuant: processEmbroidery's quantize stage and its warning analysis
\* =========================================================================

\* Sequences of 1..n pixels drawn from TestPixels.
BandFills == UNION { [1..n -> TestPixels] : n \in 1..MaxBands }

IdleQuant ==
  [ pc |-> "idle",
    normalized |-> [ data |-> <<Pixel(0, 0, 0, 255)>>,
                     info |-> [width |-> 1, height |-> 1, channels |-> 4] ],
    maxColors |-> MinColors, threadThickness |-> 1, phase |-> 0,
    result |-> [ok |-> FALSE], warnings |-> <<>> ]

\* The components a specification does not exercise stay idle.
Idle == [pc |-> "idle"]

QuantInit ==
  /\ quant \in { [IdleQuant EXCEPT !.pc = "quantize",
                                   !.normalized = BandedImage(fill, rows),
                                   !.maxColors = k,
                                   !.phase = ph] :
                   fill \in BandFills, rows \in 1..2,
                   k \in MinColors..MaxColorsExplored, ph \in 0..1 }
  /\ orient = Idle
  /\ rim = Idle
  /\ tileSheetCache = <<>>
  /\ maskCache = <<>>
  /\ globalTextureCache = <<>>
  /\ reqs = <<>>
  /\ variant = "full"
  /\ clock = Idle

\* processEmbroidery: quantized = await quantizeColors(normalized, maxColors)
QuantizeStage ==
  /\ quant.pc = "quantize"
  /\ LET res == quantizeColors(quant.normalized, quant.maxColors, quant.phase)
     IN quant' = [quant EXCEPT !.result = res,
                               !.pc = IF res.ok THEN "warnings" ELSE "failed"]

\* processEmbroidery: alpha = extractAlpha(quantized.data, quantized.info);
\* wr = computeWarnings(alpha, w, h, T, edges.edgeMap, maxColors, paletteSize).
\* The edge map comes from the codec's gradient of the picture; here it is
\* either empty or full.
WarningStage ==
  /\ quant.pc = "warnings"
  /\ \E e \in {0, 255}, t \in {1, 3} :
       LET q == quant.result
           alpha == extractAlpha(q.data)
           edgeMap == [i \in 1..Len(alpha) |-> e]
       IN quant' = [quant EXCEPT
                      !.threadThickness = t,
                      !.warnings = computeWarnings(alpha, q.info.width, q.info.height,
                                                   t, edgeMap, quant.maxColors,
                                                   q.paletteSize),
                      !.pc = "done"]

QuantNext ==
  \/ QuantizeStage /\ UNCHANGED <<orient, rim, procVars, clock>>
  \/ WarningStage /\ UNCHANGED <<orient, rim, procVars, clock>>

SpecQuant == QuantInit /\ [][QuantNext]_vars

\* The rounded colours of the pixels the palette extraction samples.
SampledColors(normalized, phase) ==
  LET w == normalized.info.width
      h == normalized.info.height
      scale == QuantScale(w, h)
      ds == FitInside(w, h, w \div scale, h \div scale)
      downscaled == ResizeNearest(normalized.data, w, h, ds.width, ds.height, phase)
  IN { RoundedColor(downscaled[i]) : i \in SampledIndices(Len(downscaled)) }

QuantReturned == quant.pc \in {"warnings", "done"}

\* C3 (as claimed): after quantizeColors every pixel of the returned raster
\* has the (r, g, b) of some entry of the returned palette.
C3_PaletteClosure ==
  QuantReturned =>
    \A i \in 1..Len(quant.result.data) :
      \E k \in 1..Len(quant.result.palette) :
        LET px == quant.result.data[i]
            c == quant.result.palette[k]
        IN px.r = c.r /\ px.g = c.g /\ px.b = c.b

\* C4: the returned palette has between 1 and K entries, paletteSize is its
\* length, and when fewer than K distinct rounded colours were sampled the
\* palette is exactly the set of sampled rounded colours.
C4_PaletteBound ==
  QuantReturned =>
    LET pal == quant.result.palette
        sampled == SampledColors(quant.normalized, quant.phase)
    IN /\ Len(pal) >= 1
       /\ Len(pal) <= quant.maxColors
       /\ quant.result.paletteSize = Len(pal)
       /\ Cardinality(sampled) < quant.maxColors =>
            /\ SeqRange(pal) = sampled
            /\ Len(pal) = Cardinality(sampled)

\* C4 witness: more than K distinct rounded colours were sampled and the
\* returned palette was cut down to exactly K entries.
C4_Witness ==
  /\ QuantReturned
  /\ Cardinality(SampledColors(quant.normalized, quant.phase)) > quant.maxColors
  /\ Len(quant.result.palette) = quant.maxColors

\* C5: the alpha byte of every quantized pixel is the input's alpha byte at
\* that pixel.
C5_AlphaPreserved ==
  QuantReturned =>
    /\ Len(quant.result.data) = Len(quant.normalized.data)
    /\ \A i \in 1..Len(quant.result.data) :
         quant.result.data[i].a = quant.normalized.data[i].a

\* C5 witness: a quantized pixel whose alpha differs from the alpha of the
\* palette entry chosen for it.
C5_Witness ==
  /\ QuantReturned
  /\ \E i \in 1..Len(quant.result.data) :
       /\ quant.normalized.data[i].a = 0
       /\ ClosestColor(quant.normalized.data[i], quant.result.palette).a = 255
       /\ quant.result.data[i].a = 0

\* C7 (as claimed): when more than maxColors distinct rounded colours are
\* present, the result has paletteSize = maxColors and carries the warning
\* "Reduced colors to {maxColors}".
C7_PaletteClampWarning ==
  (quant.pc = "done"
     /\ Cardinality(SampledColors(quant.normalized, quant.phase)) > quant.maxColors) =>
    /\ quant.result.paletteSize = quant.maxColors
    /\ ReducedColorsWarning(quant.maxColors) \in SeqRange(quant.warnings)

\* =========================================================================
\* Orientation estimator (binsFromGradients, computeOrientation)
\* =========================================================================

\* Angles are kept as whole multiples of pi / AnglePerPi, rounded down.  Every
\* bin boundary k * pi / N of the bin counts in use (4, 6, 8, 12) is such a
\* multiple, so floor(a * N / pi) = floor(AngleOf(a) * N / AnglePerPi).
AnglePerPi == 24

\* 10^4 * cos(k * pi / 24) and 10^4 * sin(k * pi / 24) for k = 1..23.
CosTable ==
  << 9914, 9659, 9239, 8660, 7934, 7071, 6088, 5000, 3827, 2588, 1305, 0,
     -1305, -2588, -3827, -5000, -6088, -7071, -7934, -8660, -9239, -9659, -9914 >>
SinTable ==
  << 1305, 2588, 3827, 5000, 6088, 7071, 7934, 8660, 9239, 9659, 9914, 10000,
     9914, 9659, 9239, 8660, 7934, 7071, 6088, 5000, 3827, 2588, 1305 >>

\* Math.atan2(y, x) for y >= 0, a value in [0, pi]: the number of directions
\* k * pi / 24, k >= 1, that (x, y) has reached.
UpperAngle(y, x) ==
  IF y = 0 THEN (IF x < 0 THEN AnglePerPi ELSE 0)
  ELSE Cardinality({ k \in 1..(AnglePerPi - 1) : CosTable[k] * y - SinTable[k] * x >= 0 })

\* a = Math.atan2(y, x); if (a < 0) a += Math.PI.  atan2 is negative exactly
\* when y < 0, and adding pi turns the direction (x, y) into (-x, -y).
FoldedAngle(y, x) == IF y < 0 THEN UpperAngle(-y, -x) ELSE UpperAngle(y, x)

\* A clamp that forgets the upper end.
ClampBinLowOnly(b, numBins) == IF b < 0 THEN 0 ELSE b

\* if (b < 0) b = 0; if (b >= numBins) b = numBins - 1
ClampBin(b, numBins) == IF b < 0 THEN 0 ELSE IF b >= numBins THEN numBins - 1 ELSE b

\* gx[i] ?? 0: a read past the end of a typed array is undefined.
ElemOrZero(arr, i) == IF i <= Len(arr) THEN arr[i] ELSE 0

binsFromGradients(gx, gy, width, height, numBins) ==
  [i \in 1..(width * height) |->
     LET a == FoldedAngle(ElemOrZero(gy, i), ElemOrZero(gx, i))
     IN ClampBin((a * numBins) \div AnglePerPi, numBins)]

\* new Int16Array(buf.buffer, buf.byteOffset, buf.byteLength / 2): each pair
\* of bytes is one little-endian signed element; an odd last byte is dropped.
Int16View(buf) ==
  [k \in 1..(Len(buf) \div 2) |->
     LET u == buf[2 * k - 1] + 256 * buf[2 * k]
     IN IF u >= 32768 THEN u - 65536 ELSE u]

\* ANALYSIS_SIZE = mode === 'logo' ? 300 : 400
AnalysisSize(mode) == IF mode = "logo" THEN 300 ELSE 400

\* numBins = method === 'binned-8' ? (logo ? 4 : 6) : (logo ? 8 : 12)
NumBins(method, mode) ==
  IF method = "binned-8"
  THEN (IF mode = "logo" THEN 4 ELSE 6)
  ELSE (IF mode = "logo" THEN 8 ELSE 12)

\* computeOrientation from the two convolution buffers on.  gxBuffer and
\* gyBuffer are the codec's one-byte-per-pixel Sobel outputs at the analysis
\* size; phase is the codec's nearest-neighbour sampling convention.
computeOrientation(info, gxBuffer, gyBuffer, method, mode, phase) ==
  LET dw == Min2(info.width, AnalysisSize(mode))
      dh == Min2(info.height, AnalysisSize(mode))
      gx == Int16View(gxBuffer)
      gy == Int16View(gyBuffer)
      numBins == NumBins(method, mode)
      binsDown == binsFromGradients(gx, gy, dw, dh, numBins)
  IN [ orientationBins |->
         ResizeNearest(binsDown, dw, dh, info.width, info.height, phase),
       orientationField |->
         [i \in 1..Len(gx) |-> FoldedAngle(ElemOrZero(gy, i), gx[i])],
       method |-> method ]

\* =========================================================================
\* SpecOrient: computeOrientation over small convolution buffers
\* =========================================================================

GxBytes == {0, 1, 255}
GyBytes == {0, 255}
Methods == {"binned-8", "lic"}
Modes == {"photo", "logo"}

OrientInit ==
  /\ orient \in { [ pc |-> "compute",
                    info |-> [width |-> n, height |-> 1, channels |-> 4],
                    gxBuffer |-> bx, gyBuffer |-> by,
                    method |-> me, mode |-> mo,
                    result |-> [orientationBins |-> <<>>, orientationField |-> <<>>,
                                method |-> me] ] :
                    n \in 1..MaxGradientBytes,
                    bx \in UNION { [1..n -> GxBytes] : n \in 1..MaxGradientBytes },
                    by \in UNION { [1..n -> GyBytes] : n \in 1..MaxGradientBytes },
                    me \in Methods, mo \in Modes }
  /\ Len(orient.gxBuffer) = orient.info.width
  /\ Len(orient.gyBuffer) = orient.info.width
  /\ quant = IdleQuant
  /\ rim = Idle
  /\ tileSheetCache = <<>>
  /\ maskCache = <<>>
  /\ globalTextureCache = <<>>
  /\ reqs = <<>>
  /\ variant = "full"
  /\ clock = Idle

ComputeOrientationStage ==
  /\ orient.pc = "compute"
  /\ \E ph \in 0..1 :
       orient' = [orient EXCEPT
                    !.result = computeOrientation(orient.info, orient.gxBuffer,
                                                  orient.gyBuffer, orient.method,
                                                  orient.mode, ph),
                    !.pc = "done"]

OrientNext ==
  \/ ComputeOrientationStage /\ UNCHANGED <<quant, rim, procVars, clock>>

SpecOrient == OrientInit /\ [][OrientNext]_vars

C9_FieldHalfOpen ==
  orient.pc = "done" =>
    \A i \in 1..Len(orient.result.orientationField) :
      /\ orient.result.orientationField[i] >= 0
      /\ orient.result.orientationField[i] < AnglePerPi

\* =========================================================================
\* Edge detector: the rim band (detectEdges, second half)
\* =========================================================================

\* alphaBin[i] = alphaRaw[i] ? 255 : 0
AlphaBin(alphaRaw) == [i \in 1..Len(alphaRaw) |-> IF alphaRaw[i] # 0 THEN 255 ELSE 0]

\* size = Math.max(3, threadThickness * 2 + 1)
RimKernelSize(threadThickness) == Max2(3, threadThickness * 2 + 1)

ClampIndex(v, n) == IF v < 0 THEN 0 ELSE IF v > n - 1 THEN n - 1 ELSE v

\* How many of the kernel's taps around coordinate c fall on coordinate k
\* when the raster's edge pixels are repeated outwards.
TapCount(c, k, n, size) ==
  Cardinality({ d \in (-(size \div 2))..(size \div 2) : ClampIndex(c + d, n) = k })

RECURSIVE SumUpTo(_, _)
SumUpTo(f, n) == IF n = 0 THEN 0 ELSE f[n] + SumUpTo(f, n - 1)

\* The codec's convolution with a size x size kernel of ones: the default
\* scale is the sum of the kernel, so every output byte is the mean of the
\* window.  round = 1 rounds to nearest, round = 0 truncates; which one the
\* codec's cast to bytes does is not fixed by the repository.
BoxConvolve(src, w, h, size, round) ==
  [i \in 1..(w * h) |->
     LET x == (i - 1) % w
         y == (i - 1) \div w
         total == SumUpTo([j \in 1..(w * h) |->
                             src[j] * TapCount(x, (j - 1) % w, w, size)
                                    * TapCount(y, (j - 1) \div w, h, size)],
                          w * h)
         scale == size * size
     IN Min2(255, IF round = 1 THEN (2 * total + scale) \div (2 * scale)
                  ELSE total \div scale)]

\* thresholdDil = size * size * 0.1
RimThresholdDilTimes10(size) == size * size
\* thresholdEro = size * size * 0.9
RimThresholdEroTimes10(size) == 9 * size * size

\* rimBand[i] = (v > thresholdDil && v < thresholdEro) ? 255 : 0
RimBandOf(alphaRaw, w, h, threadThickness, round) ==
  LET size == RimKernelSize(threadThickness)
      blurred == BoxConvolve(AlphaBin(alphaRaw), w, h, size, round)
  IN [i \in 1..(w * h) |->
        IF 10 * blurred[i] > RimThresholdDilTimes10(size)
           /\ 10 * blurred[i] < RimThresholdEroTimes10(size)
        THEN 255 ELSE 0]

\* =========================================================================
\* SpecRim: the rim band and the thin-stroke analysis over alpha masks
\* =========================================================================

AlphaValues == {0, 255}
MaskSizes ==
  { wh \in (1..MaxMaskPixels) \X (1..MaxMaskPixels) : wh[1] * wh[2] <= MaxMaskPixels }

RimInit ==
  /\ rim \in { [ pc |-> "edges", width |-> wh[1], height |-> wh[2], alpha |-> al,
                 threadThickness |-> t, round |-> rd,
                 rimBand |-> <<>>, distIn |-> <<>>, warnings |-> <<>> ] :
                 wh \in MaskSizes,
                 al \in UNION { [1..n -> AlphaValues] : n \in 1..MaxMaskPixels },
                 t \in MinThickness..MaxThickness, rd \in 0..1 }
  /\ Len(rim.alpha) = rim.width * rim.height
  /\ quant = IdleQuant
  /\ orient = Idle
  /\ tileSheetCache = <<>>
  /\ maskCache = <<>>
  /\ globalTextureCache = <<>>
  /\ reqs = <<>>
  /\ variant = "full"
  /\ clock = Idle

\* detectEdges, from "const alphaRaw" to the return of rimBand
RimBandStage ==
  /\ rim.pc = "edges"
  /\ rim' = [rim EXCEPT
               !.rimBand = RimBandOf(rim.alpha, rim.width, rim.height,
                                     rim.threadThickness, rim.round),
               !.pc = "warnings"]

\* processEmbroidery: computeWarnings(alpha, w, h, T, edges.edgeMap, maxColors,
\* paletteSize); the edge map is the codec's gradient threshold, here either
\* empty or full, and paletteSize is a size quantizeColors can return.
\* distIn is computeWarnings' local of that name.
RimWarningStage ==
  /\ rim.pc = "warnings"
  /\ \E e \in {0, 255}, ps \in 1..MinColors :
       rim' = [rim EXCEPT
                 !.distIn = distanceTransform(rim.alpha, rim.width, rim.height),
                 !.warnings = computeWarnings(rim.alpha, rim.width, rim.height,
                                              rim.threadThickness,
                                              [i \in 1..Len(rim.alpha) |-> e],
                                              MinColors, ps),
                 !.pc = "done"]

RimNext ==
  \/ RimBandStage /\ UNCHANGED <<quant, orient, procVars, clock>>
  \/ RimWarningStage /\ UNCHANGED <<quant, orient, procVars, clock>>

SpecRim == RimInit /\ [][RimNext]_vars

\* C6 (as claimed): on a uniformly opaque alpha mask computeWarnings does not
\* emit the thin-strokes warning.
C6_NoThinStrokesOnOpaque ==
  (rim.pc = "done" /\ \A i \in 1..Len(rim.alpha) : rim.alpha[i] = 255) =>
    ThinStrokesWarning \notin SeqRange(rim.warnings)

\* Pixels at Chebyshev distance at most d from pixel i.
Neighbourhood(i, w, h, d) ==
  { j \in 1..(w * h) :
      LET dx == ((j - 1) % w) - ((i - 1) % w)
          dy == ((j - 1) \div w) - ((i - 1) \div w)
      IN dx >= -d /\ dx <= d /\ dy >= -d /\ dy <= d }

\* C10 (as claimed): every pixel set in the rim band has an alpha transition
\* within T pixels, so a pixel whose (2T+1) x (2T+1) neighbourhood is
\* uniformly opaque or uniformly transparent is never in the rim band.
C10_RimBandLocality ==
  rim.pc \in {"warnings", "done"} =>
    \A i \in 1..Len(rim.rimBand) :
      rim.rimBand[i] # 0 =>
        \E j, k \in Neighbourhood(i, rim.width, rim.height, rim.threadThickness) :
          rim.alpha[j] = 0 /\ rim.alpha[k] # 0

\* Pairs of pixels that share a side, and pairs that share only a corner.
OrthogonalPairs(w, h) ==
  { p \in (1..(w * h)) \X (1..(w * h)) :
      LET dx == ((p[2] - 1) % w) - ((p[1] - 1) % w)
          dy == ((p[2] - 1) \div w) - ((p[1] - 1) \div w)
      IN (dx = 1 /\ dy = 0) \/ (dx = 0 /\ dy = 1) }
DiagonalPairs(w, h) ==
  { p \in (1..(w * h)) \X (1..(w * h)) :
      LET dx == ((p[2] - 1) % w) - ((p[1] - 1) % w)
          dy == ((p[2] - 1) \div w) - ((p[1] - 1) \div w)
      IN (dx = 1 \/ dx = -1) /\ dy = 1 }
AbsDiff(a, b) == IF a >= b THEN a - b ELSE b - a

\* The distance transform of a grid with at least one non-zero pixel has been
\* taken.
DistTaken == rim.pc = "done" /\ \E i \in 1..Len(rim.alpha) : rim.alpha[i] # 0

\* C11 (as claimed): on a grid with a non-zero pixel the distance transform
\* is 0 exactly on the non-zero pixels, pixels sharing a side differ by at
\* most 1, and pixels sharing a corner by at most 1.4.
C11_StepBound ==
  DistTaken =>
    /\ \A i \in 1..Len(rim.alpha) : (rim.distIn[i] = 0) <=> (rim.alpha[i] # 0)
    /\ \A p \in OrthogonalPairs(rim.width, rim.height) :
         AbsDiff(rim.distIn[p[1]], rim.distIn[p[2]]) <= OrthoCost
    /\ \A p \in DiagonalPairs(rim.width, rim.height) :
         AbsDiff(rim.distIn[p[1]], rim.distIn[p[2]]) <= DiagCost

\* C11 (amended): the same, with the two step bounds holding up to one
\* Float32 rounding step of the larger of the two values: the distances are
\* stored in a Float32Array, and 1 + 1.4 is stored as 2.4000000953674316.
C11_StepBoundRounded ==
  DistTaken =>
    /\ \A i \in 1..Len(rim.alpha) : (rim.distIn[i] = 0) <=> (rim.alpha[i] # 0)
    /\ \A p \in OrthogonalPairs(rim.width, rim.height) :
         AbsDiff(rim.distIn[p[1]], rim.distIn[p[2]])
           <= OrthoCost + F32Ulp(Max2(rim.distIn[p[1]], rim.distIn[p[2]]))
    /\ \A p \in DiagonalPairs(rim.width, rim.height) :
         AbsDiff(rim.distIn[p[1]], rim.distIn[p[2]])
           <= DiagCost + F32Ulp(Max2(rim.distIn[p[1]], rim.distIn[p[2]]))

\* C11 witness: a grid with set and unset pixels whose transform has two
\* corner-sharing pixels more than 1.4 apart (the rounded store happened).
C11_Witness ==
  /\ DistTaken
  /\ \E i \in 1..Len(rim.alpha) : rim.alpha[i] = 0
  /\ \E p \in DiagonalPairs(rim.width, rim.height) :
       AbsDiff(rim.distIn[p[1]], rim.distIn[p[2]]) > DiagCost

\* Five times the exact chamfer cost between pixels i and j of a w-wide
\* rectangle, in Float32 steps of 2^-23: a cheapest 8-connected path takes
\* min(|dx|, |dy|) diagonal steps of 1.4 and the rest orthogonally (times five
\* so that 1.4 is a whole number of steps).
ChamferCostTimesFive(i, j, w) ==
  LET dx == AbsDiff((i - 1) % w, (j - 1) % w)
      dy == AbsDiff((i - 1) \div w, (j - 1) \div w)
  IN 5 * F32One * (Max2(dx, dy) - Min2(dx, dy)) + 58720256 * Min2(dx, dy)

\* The number of steps of that path.
ChamferSteps(i, j, w) ==
  Max2(AbsDiff((i - 1) % w, (j - 1) % w), AbsDiff((i - 1) \div w, (j - 1) \div w))

\* The non-zero pixels nearest to pixel i in exact chamfer cost.
NearestSet(i) ==
  { j \in 1..Len(rim.alpha) :
      /\ rim.alpha[j] # 0
      /\ \A k \in 1..Len(rim.alpha) :
           rim.alpha[k] # 0 =>
             ChamferCostTimesFive(i, j, rim.width) <= ChamferCostTimesFive(i, k, rim.width) }

\* C26 (as claimed): on a grid with a non-zero pixel the distance transform
\* holds at each pixel the exact chamfer distance to the nearest non-zero
\* pixel (1 per orthogonal step, 1.4 per diagonal step); with no non-zero
\* pixel every value stays at the sentinel.
C26_ChamferExact ==
  rim.pc = "done" =>
    \A i \in 1..Len(rim.alpha) :
      IF \A j \in 1..Len(rim.alpha) : rim.alpha[j] = 0
      THEN rim.distIn[i] = DistInf
      ELSE \E j \in NearestSet(i) :
             5 * rim.distIn[i] = ChamferCostTimesFive(i, j, rim.width)

\* C26 (amended): the value at each pixel is the chamfer distance to the
\* nearest non-zero pixel up to the Float32 stores: it differs from the exact
\* distance by at most half a Float32 rounding step of the value per step of
\* the path; with no non-zero pixel every value stays at the sentinel.
C26_ChamferRounded ==
  rim.pc = "done" =>
    \A i \in 1..Len(rim.alpha) :
      IF \A j \in 1..Len(rim.alpha) : rim.alpha[j] = 0
      THEN rim.distIn[i] = DistInf
      ELSE \E j \in NearestSet(i) :
             2 * AbsDiff(5 * rim.distIn[i], ChamferCostTimesFive(i, j, rim.width))
               <= 5 * F32Ulp(rim.distIn[i]) * ChamferSteps(i, j, rim.width)

\* C26 witness: the transform of a grid whose only non-zero pixel is the last
\* one of a second row holds 1.4 as stored (11744051 steps) at the pixel
\* diagonally above and 2.4 as stored one pixel further left.
C26_Witness ==
  /\ rim.pc = "done"
  /\ rim.width = 3 /\ rim.height = 2
  /\ rim.alpha = <<0, 0, 0, 0, 0, 255>>
  /\ rim.distIn[2] = DiagCost
  /\ rim.distIn[1] = 20132660

\* =========================================================================
\* Caches (lru-cache instances and the texture map)
\* =========================================================================

\* tileSheetCache = new LRUCache({ max: 64, ... })
TileCacheMax == 64
\* maskCache = new LRUCache({ max: 128, ... })
MaskCacheMax == 128

keyTile(type, angle, w, h) == <<type, angle, w, h>>
keyMask(bin, w, h, sig) == <<bin, w, h, sig>>

\* An LRU cache is a sequence of [key, value], least recently used first.
CacheHas(cache, key) == \E i \in 1..Len(cache) : cache[i].key = key
CacheIndex(cache, key) == CHOOSE i \in 1..Len(cache) : cache[i].key = key
CacheValue(cache, key) == cache[CacheIndex(cache, key)].value
CacheWithout(cache, key) ==
  IF CacheHas(cache, key)
  THEN LET k == CacheIndex(cache, key)
       IN [j \in 1..(Len(cache) - 1) |-> IF j < k THEN cache[j] ELSE cache[j + 1]]
  ELSE cache
\* get(key) on a hit: the entry becomes the most recently used.
CacheTouch(cache, key) ==
  Append(CacheWithout(cache, key), [key |-> key, value |-> CacheValue(cache, key)])
\* set(key, value) of a cache that never evicts.
CacheSetKeepAll(cache, key, value, max) ==
  Append(CacheWithout(cache, key), [key |-> key, value |-> value])
\* set(key, value): insert or replace as most recent, then drop the least
\* recently used entries above max.
CacheSet(cache, key, value, max) ==
  LET put == Append(CacheWithout(cache, key), [key |-> key, value |-> value])
  IN IF Len(put) > max THEN Tail(put) ELSE put

\* =========================================================================
\* Texture synthesizer (generateTextures and its helpers)
\* =========================================================================

\* generateThreadTexturesFast: size = 64, numBins = 6
ThreadTileSize == 64
ThreadTileCount == 6
\* generateHatchPatternsFast: size = 32
HatchTileSize == 32

\* A texture is what its drawing code is given: the canvas size, the rotation,
\* the stripe or line spacing, the stripe width and the stroke alpha (in
\* percent; 100 for the opaque thread gradient).  Densities are in tenths.
Texture(kind, size, angle, spacing, thickness, alpha) ==
  [ kind |-> kind, size |-> size, angle |-> angle, spacing |-> spacing,
    thickness |-> thickness, alpha |-> alpha ]

\* threadSpacing = Math.max(2, Math.round(thickness * 1.2 / density))
createThreadTextureFast(size, angle, thickness, density10) ==
  Texture("thread", size, angle, Max2(2, RoundDiv(12 * thickness, density10)),
          thickness, 100)

generateThreadTexturesFast(threadThickness, density10) ==
  [b \in 1..ThreadTileCount |->
     createThreadTextureFast(ThreadTileSize, ((b - 1) * 180) \div ThreadTileCount,
                             threadThickness, density10)]

\* lineSpacing = Math.max(3, Math.round(4 / density))
HatchLineSpacing(density10) == Max2(3, RoundDiv(40, density10))

generateHatchPatternsFast(hatchType, density10) ==
  IF hatchType = "none" THEN <<Texture("none", HatchTileSize, 0, 0, 0, 0)>>
  ELSE IF hatchType = "diagonal"
  THEN <<Texture("diagonal", HatchTileSize, 45, HatchLineSpacing(density10), 1, 40)>>
  ELSE IF hatchType = "cross"
  THEN <<Texture("cross", HatchTileSize, 45, HatchLineSpacing(density10), 1, 30)>>
  ELSE <<>>

\* density = Math.max(0.5, Math.min(2, options.densityScale ?? 1))
ClampDensity(density10) == Max2(5, Min2(20, density10))

\* cacheKey = `${threadThickness}_${hatch}_${density}`
TextureCacheKey(options) ==
  <<options.threadThickness, options.hatch, ClampDensity(options.densityScale)>>

\* A split at the tile count of the earlier, larger tile bank.
SplitTexturesAtEight(cached, threadThickness) ==
  [ threadTextures |-> SubSeq(cached, 1, Min2(8, Len(cached))),
    hatchPatterns |-> SubSeq(cached, 9, Len(cached)),
    threadThickness |-> threadThickness ]

\* What generateTextures returns once the cached array (threads followed by
\* hatch patterns) is split again.
SplitTextures(cached, threadThickness) ==
  [ threadTextures |-> SubSeq(cached, 1, Min2(ThreadTileCount, Len(cached))),
    hatchPatterns |-> SubSeq(cached, ThreadTileCount + 1, Len(cached)),
    threadThickness |-> threadThickness ]

\* The array generateTextures computes on a miss.
ComputeTextures(options) ==
  generateThreadTexturesFast(options.threadThickness, ClampDensity(options.densityScale))
    \o generateHatchPatternsFast(options.hatch, ClampDensity(options.densityScale))

\* =========================================================================
\* Compositor (compositeImage, both variants)
\* =========================================================================

\* A tile sheet: a texture repeated over a w x h frame.
TileSheet(texture, w, h) == [tile |-> texture, width |-> w, height |-> h]
\* { create: { width, height, channels: 4, background: white } }
WhiteSheet(w, h) == TileSheet(Texture("white", 0, 0, 0, 0, 100), w, h)
\* Layers that take their pixels from a raster instead of a sheet.
NoSheet(w, h) == TileSheet(Texture("raster", 0, 0, 0, 0, 0), w, h)

\* One entry of compositeOps.  A masked layer has a sheet and a mask; the
\* edge layer has only an input raster.
Layer(kind, blend, sheet, mask, input) ==
  [kind |-> kind, blend |-> blend, sheet |-> sheet, mask |-> mask, input |-> input]

createOrientationMask(orientationBins, binIndex, width, height) ==
  [i \in 1..(width * height) |-> IF orientationBins[i] = binIndex THEN 255 ELSE 0]

\* Dashes whose length is the thread thickness itself.
DashEdgesByThickness(edgeMap, w, h, threadThickness) ==
  [i \in 1..(w * h) |->
     IF edgeMap[i] # 0 /\ (((i - 1) % w) \div threadThickness) % 2 = 0 THEN 255 ELSE 0]
\* detectEdges: stitchLen = Math.max(2, threadThickness); a set edge pixel is
\* kept iff floor(x / stitchLen) % 2 = 0.
DashEdges(edgeMap, w, h, threadThickness) ==
  LET stitchLen == Max2(2, threadThickness)
  IN [i \in 1..(w * h) |->
        IF edgeMap[i] # 0 /\ (((i - 1) % w) \div stitchLen) % 2 = 0 THEN 255 ELSE 0]

\* createSimpleStitchPattern: dash = Math.max(4, Math.round(stitchLength * 2))
createSimpleStitchPattern(rimBand, stitchLength, width, height) ==
  LET dash == Max2(4, 2 * stitchLength)
  IN [i \in 1..Len(rimBand) |->
        IF rimBand[i] # 0 /\ (((i - 1) % width) \div dash) % 2 = 0 THEN 255 ELSE 0]

\* createEnhancedStitchPattern: dash = Math.max(2, Math.round(stitchLength * 1.5))
createEnhancedStitchPattern(rimBand, stitchLength, width, height) ==
  LET dash == Max2(2, RoundDiv(3 * stitchLength, 2))
  IN [i \in 1..Len(rimBand) |->
        IF rimBand[i] # 0
           /\ ((((i - 1) % width) \div dash) + (((i - 1) \div width) \div dash)) % 2 = 0
        THEN 255 ELSE 0]

\* The bins the thread loop visits, in order.  Full variant: every tile.
\* Stride-2 variant: maxBins = min(3, n), actualBin = binIndex * 2 % n.
BinOrderStrideFour(v, n) ==
  IF v = "full" THEN [k \in 1..n |-> k - 1]
  ELSE [k \in 1..Min2(3, n) |-> ((k - 1) * 4) % n]
BinOrder(v, n) ==
  IF v = "full" THEN [k \in 1..n |-> k - 1]
  ELSE [k \in 1..Min2(3, n) |-> ((k - 1) * 2) % n]

\* Whether the variant adds the rim-stitch layer.
HasRimLayer(v, options) ==
  IF v = "full" THEN options.borderStitch
  ELSE options.borderStitch /\ options.threadThickness > 2

RimStitches(v, rimBand, options, w, h) ==
  IF v = "full"
  THEN createEnhancedStitchPattern(rimBand, options.threadThickness, w, h)
  ELSE createSimpleStitchPattern(rimBand, options.threadThickness, w, h)

\* The key under which the sheet of a tile kind and bin is cached.
SheetKey(kind, bin, w, h) == keyTile(kind, bin, w, h)
\* The key under which the orientation mask of a bin is cached.
MaskKey(bin, w, h) == keyMask(bin, w, h, "bins")

\* =========================================================================
\* Spec: processEmbroidery calls sharing the three caches of one process
\* =========================================================================

\* The option sets of the requests explored (densityScale in tenths).
Options(T, hatch, stitch) ==
  [ threadThickness |-> T, hatch |-> hatch, densityScale |-> 10,
    borderStitch |-> stitch, method |-> "binned-8", mode |-> "photo" ]

\* A request after normalisation and quantisation: the quantized raster, the
\* Sobel buffers the gradient stage produced from it, the edge map, and the
\* caller's options.  All images are 2 x 1; the second pixel of ImageC is
\* transparent.  Requests carry preserveTransparency true, the route's
\* default, for which applyBackgroundLocal returns the composite unchanged.
Request(data, gxBuffer, gyBuffer, edgeMap, options) ==
  [ data |-> data, info |-> [width |-> 2, height |-> 1, channels |-> 4],
    gxBuffer |-> gxBuffer, gyBuffer |-> gyBuffer, edgeMap |-> edgeMap,
    options |-> options ]

ImageA == <<Pixel(0, 0, 0, 255), Pixel(0, 0, 0, 255)>>
ImageB == <<Pixel(0, 0, 0, 255), Pixel(240, 240, 240, 255)>>
ImageC == <<Pixel(0, 0, 0, 255), Pixel(0, 0, 0, 0)>>

Requests ==
  << Request(ImageA, <<1, 0>>, <<0, 0>>, <<0, 0>>, Options(3, "diagonal", TRUE)),
     Request(ImageB, <<0, 0>>, <<1, 0>>, <<255, 0>>, Options(3, "diagonal", TRUE)),
     Request(ImageA, <<1, 0>>, <<0, 0>>, <<0, 0>>, Options(2, "cross", TRUE)),
     Request(ImageC, <<1, 0>>, <<0, 0>>, <<0, 0>>, Options(3, "none", FALSE)) >>

\* The values processEmbroidery hands to compositeImage, each a function of
\* the request alone.
OrientationBinsOf(r) ==
  computeOrientation(r.info, r.gxBuffer, r.gyBuffer, r.options.method,
                     r.options.mode, 0).orientationBins
EdgeBufferOf(r) ==
  DashEdges(r.edgeMap, r.info.width, r.info.height, r.options.threadThickness)
RimBandFor(r) ==
  RimBandOf(extractAlpha(r.data), r.info.width, r.info.height,
            r.options.threadThickness, 1)

NoTextures == [threadTextures |-> <<>>, hatchPatterns |-> <<>>, threadThickness |-> 0]
NoOutput == [base |-> <<>>, layers |-> <<>>]

\* One processEmbroidery call: its position, its request (an index into
\* Requests, 0 before the call), and the locals that live across its awaits;
\* textureHit tells which branch of generateTextures returned its textures.
IdleSlot ==
  [ pc |-> "idle", req |-> 0, textures |-> NoTextures, textureHit |-> FALSE,
    alphaMaskRaw |-> <<>>,
    compositeOps |-> <<>>, binIndex |-> 0, output |-> NoOutput ]

Slots == 1..NumSlots
Variants == {"full", "stride2"}

Init ==
  /\ quant = IdleQuant
  /\ orient = Idle
  /\ rim = Idle
  /\ tileSheetCache = <<>>
  /\ maskCache = <<>>
  /\ globalTextureCache = <<>>
  /\ reqs = [s \in Slots |-> IdleSlot]
  /\ variant \in Variants
  /\ clock = Idle

ReqOf(s) == Requests[reqs[s].req]

\* processEmbroidery is called; normalisation, quantisation, edges and
\* orientation touch no shared state.
StartRequest(s) ==
  /\ reqs[s].pc = "idle"
  /\ \E r \in 1..Len(Requests) :
       reqs' = [reqs EXCEPT ![s].pc = "textures", ![s].req = r]
  /\ UNCHANGED <<tileSheetCache, maskCache, globalTextureCache, variant>>

\* generateTextures up to its first await: a hit returns the split array, a
\* miss goes on to draw the tiles.
TexturesLookup(s) ==
  /\ reqs[s].pc = "textures"
  /\ LET o == ReqOf(s).options
         key == TextureCacheKey(o)
     IN IF CacheHas(globalTextureCache, key)
        THEN reqs' = [reqs EXCEPT ![s].pc = "alpha", ![s].textureHit = TRUE,
                        ![s].textures =
                          SplitTextures(CacheValue(globalTextureCache, key),
                                        o.threadThickness)]
        ELSE reqs' = [reqs EXCEPT ![s].pc = "texgen"]
  /\ UNCHANGED <<tileSheetCache, maskCache, globalTextureCache, variant>>

\* Map.set: replace the value of an existing key in place, else append.
MapSet(map, key, value) ==
  IF CacheHas(map, key)
  THEN [map EXCEPT ![CacheIndex(map, key)].value = value]
  ELSE Append(map, [key |-> key, value |-> value])

\* generateTextures after the tiles are drawn: store and return them.
TexturesStore(s) ==
  /\ reqs[s].pc = "texgen"
  /\ LET o == ReqOf(s).options
         made == ComputeTextures(o)
     IN /\ globalTextureCache' = MapSet(globalTextureCache, TextureCacheKey(o), made)
        /\ reqs' = [reqs EXCEPT ![s].pc = "alpha",
                      ![s].textures =
                        [ threadTextures |->
                            generateThreadTexturesFast(o.threadThickness,
                                                       ClampDensity(o.densityScale)),
                          hatchPatterns |->
                            generateHatchPatternsFast(o.hatch,
                                                      ClampDensity(o.densityScale)),
                          threadThickness |-> o.threadThickness ]]
  /\ UNCHANGED <<tileSheetCache, maskCache, variant>>

\* compositeImage: the alpha channel is extracted (first await).
AlphaExtracted(s) ==
  /\ reqs[s].pc = "alpha"
  /\ reqs' = [reqs EXCEPT ![s].pc = "hatch",
                ![s].alphaMaskRaw = extractAlpha(ReqOf(s).data)]
  /\ UNCHANGED <<tileSheetCache, maskCache, globalTextureCache, variant>>

\* The sheet a miss computes: the requester's own tile repeated over the frame.
HatchSheetOf(textures, info) ==
  TileSheet(textures.hatchPatterns[1], info.width, info.height)
\* A sheet published before its pixels are composited.
ThreadSheetPlaceholder(textures, bin, info) ==
  TileSheet(textures.threadTextures[bin + 1], 0, 0)
ThreadSheetOf(textures, bin, info) ==
  TileSheet(textures.threadTextures[bin + 1], info.width, info.height)

HatchLayer(sheet, alphaMaskRaw) == Layer("hatch", "multiply", sheet, alphaMaskRaw, <<>>)
ThreadLayer(sheet, maskBuf) == Layer("thread", "overlay", sheet, maskBuf, <<>>)
EdgeLayer(r) ==
  Layer("edge", "overlay", NoSheet(r.info.width, r.info.height), <<>>, EdgeBufferOf(r))
RimLayer(v, r) ==
  Layer("rim", "overlay", WhiteSheet(r.info.width, r.info.height),
        RimStitches(v, RimBandFor(r), r.options, r.info.width, r.info.height), <<>>)

\* The layers pushed after the thread loop: the edge overlay, then the rim
\* stitches when the variant draws them.
TrailingLayers(v, r) ==
  <<EdgeLayer(r)>> \o (IF HasRimLayer(v, r.options) THEN <<RimLayer(v, r)>> ELSE <<>>)

\* The rest of one thread-loop iteration once the sheet is in hand: the mask
\* is looked up, computed and stored on a miss, and the layer is pushed.
\* st carries the loop position, the layers and both caches.
AfterThreadSheet(r, bin, sheet, st) ==
  LET mkey == MaskKey(bin, r.info.width, r.info.height)
      hit == CacheHas(st.masks, mkey)
      maskBuf == IF hit THEN CacheValue(st.masks, mkey)
                 ELSE createOrientationMask(OrientationBinsOf(r), bin,
                                            r.info.width, r.info.height)
  IN [ st EXCEPT
         !.k = st.k + 1,
         !.ops = Append(st.ops, ThreadLayer(sheet, maskBuf)),
         !.masks = IF hit THEN CacheTouch(st.masks, mkey)
                   ELSE CacheSet(st.masks, mkey, maskBuf, MaskCacheMax) ]

\* The thread loop from position st.k, run until it has to await a sheet
\* (st.k stays at that iteration) or until it is past the last bin.
RECURSIVE ThreadLoop(_, _, _, _)
ThreadLoop(v, r, textures, st) ==
  LET order == BinOrder(v, Len(textures.threadTextures))
  IN IF st.k > Len(order) THEN st
     ELSE LET key == SheetKey("thread", order[st.k], r.info.width, r.info.height)
          IN IF CacheHas(st.tiles, key)
             THEN ThreadLoop(v, r, textures,
                    AfterThreadSheet(r, order[st.k], CacheValue(st.tiles, key),
                                     [st EXCEPT !.tiles = CacheTouch(st.tiles, key)]))
             ELSE st

\* Where a call stands after ThreadLoop returned st: awaiting a sheet, or past
\* the loop with its trailing layers pushed and the final render awaited.
AfterLoop(s, v, r, textures, st) ==
  IF st.k > Len(BinOrder(v, Len(textures.threadTextures)))
  THEN [reqs EXCEPT ![s].pc = "render", ![s].binIndex = st.k,
                    ![s].compositeOps = st.ops \o TrailingLayers(v, r)]
  ELSE [reqs EXCEPT ![s].pc = "threadTile", ![s].binIndex = st.k,
                    ![s].compositeOps = st.ops]

LoopState(k, ops, tiles, masks) == [k |-> k, ops |-> ops, tiles |-> tiles, masks |-> masks]

\* Commit a run of the thread loop started from the given loop state.
RunThreadLoop(s, start) ==
  LET st == ThreadLoop(variant, ReqOf(s), reqs[s].textures, start)
  IN /\ tileSheetCache' = st.tiles
     /\ maskCache' = st.masks
     /\ reqs' = AfterLoop(s, variant, ReqOf(s), reqs[s].textures, st)

\* The hatch overlay up to its await.  No pattern: straight to the thread
\* loop.  A hit: the layer is pushed and the thread loop starts in the same
\* turn.  A miss: the sheet is awaited.
HatchLookup(s) ==
  /\ reqs[s].pc = "hatch"
  /\ LET r == ReqOf(s)
         key == SheetKey("hatch", 0, r.info.width, r.info.height)
     IN IF Len(reqs[s].textures.hatchPatterns) = 0
        THEN RunThreadLoop(s, LoopState(1, <<>>, tileSheetCache, maskCache))
        ELSE IF CacheHas(tileSheetCache, key)
        THEN RunThreadLoop(s,
               LoopState(1, <<HatchLayer(CacheValue(tileSheetCache, key),
                                         reqs[s].alphaMaskRaw)>>,
                         CacheTouch(tileSheetCache, key), maskCache))
        ELSE /\ reqs' = [reqs EXCEPT ![s].pc = "hatchTile"]
             /\ UNCHANGED <<tileSheetCache, maskCache>>
  /\ UNCHANGED <<globalTextureCache, variant>>

\* The awaited hatch sheet arrives: it is stored, the layer is pushed and the
\* thread loop starts.
HatchSheetDone(s) ==
  /\ reqs[s].pc = "hatchTile"
  /\ LET r == ReqOf(s)
         key == SheetKey("hatch", 0, r.info.width, r.info.height)
         sheet == HatchSheetOf(reqs[s].textures, r.info)
     IN RunThreadLoop(s,
          LoopState(1, <<HatchLayer(sheet, reqs[s].alphaMaskRaw)>>,
                    CacheSet(tileSheetCache, key, sheet, TileCacheMax), maskCache))
  /\ UNCHANGED <<globalTextureCache, variant>>

\* The awaited thread sheet arrives: it is stored, the iteration finishes and
\* the loop runs on.
ThreadSheetDone(s) ==
  /\ reqs[s].pc = "threadTile"
  /\ LET r == ReqOf(s)
         bin == BinOrder(variant, Len(reqs[s].textures.threadTextures))[reqs[s].binIndex]
         key == SheetKey("thread", bin, r.info.width, r.info.height)
         sheet == ThreadSheetOf(reqs[s].textures, bin, r.info)
     IN RunThreadLoop(s,
          AfterThreadSheet(r, bin, sheet,
            LoopState(reqs[s].binIndex, reqs[s].compositeOps,
                      CacheSet(tileSheetCache, key, sheet, TileCacheMax), maskCache)))
  /\ UNCHANGED <<globalTextureCache, variant>>

\* The batched composite is rendered over the quantized raster and returned.
RenderDone(s) ==
  /\ reqs[s].pc = "render"
  /\ reqs' = [reqs EXCEPT ![s].pc = "done",
                ![s].output = [base |-> ReqOf(s).data,
                               layers |-> reqs[s].compositeOps]]
  /\ UNCHANGED <<tileSheetCache, maskCache, globalTextureCache, variant>>

Next ==
  \/ \E s \in Slots : StartRequest(s) /\ UNCHANGED <<quant, orient, rim, clock>>
  \/ \E s \in Slots : TexturesLookup(s) /\ UNCHANGED <<quant, orient, rim, clock>>
  \/ \E s \in Slots : TexturesStore(s) /\ UNCHANGED <<quant, orient, rim, clock>>
  \/ \E s \in Slots : AlphaExtracted(s) /\ UNCHANGED <<quant, orient, rim, clock>>
  \/ \E s \in Slots : HatchLookup(s) /\ UNCHANGED <<quant, orient, rim, clock>>
  \/ \E s \in Slots : HatchSheetDone(s) /\ UNCHANGED <<quant, orient, rim, clock>>
  \/ \E s \in Slots : ThreadSheetDone(s) /\ UNCHANGED <<quant, orient, rim, clock>>
  \/ \E s \in Slots : RenderDone(s) /\ UNCHANGED <<quant, orient, rim, clock>>

Spec == Init /\ [][Next]_vars

\* What compositeImage returns for a request served alone by a fresh process:
\* every lookup misses, so every sheet and mask is the requester's own.
FreshTextures(r) == SplitTextures(ComputeTextures(r.options), r.options.threadThickness)
FreshLayers(v, r) ==
  LET tex == FreshTextures(r)
      order == BinOrder(v, Len(tex.threadTextures))
  IN (IF Len(tex.hatchPatterns) > 0
      THEN <<HatchLayer(HatchSheetOf(tex, r.info), extractAlpha(r.data))>> ELSE <<>>)
     \o [k \in 1..Len(order) |->
           ThreadLayer(ThreadSheetOf(tex, order[k], r.info),
                       createOrientationMask(OrientationBinsOf(r), order[k],
                                             r.info.width, r.info.height))]
     \o TrailingLayers(v, r)
FreshOutput(v, r) == [base |-> r.data, layers |-> FreshLayers(v, r)]

\* C1: the output of a finished processEmbroidery call is the output the same
\* request gets from a process with empty caches, whatever other requests the
\* process served before or meanwhile.
C1_OutputDependsOnlyOnRequest ==
  \A s \in Slots :
    reqs[s].pc = "done" => reqs[s].output = FreshOutput(variant, ReqOf(s))

\* C2: every sheet and mask a call takes from the caches is the buffer that
\* call would have computed itself on a miss (values are functions of keys).
C2_HitEqualsMiss ==
  \A s \in Slots :
    \A i \in 1..Len(reqs[s].compositeOps) :
      LET layer == reqs[s].compositeOps[i]
      IN /\ layer.kind = "hatch" =>
              layer.sheet = HatchSheetOf(FreshTextures(ReqOf(s)), ReqOf(s).info)
         /\ layer.kind = "thread" =>
              \E bin \in 0..(ThreadTileCount - 1) :
                /\ layer.sheet = ThreadSheetOf(FreshTextures(ReqOf(s)), bin, ReqOf(s).info)
                /\ layer.mask = createOrientationMask(OrientationBinsOf(ReqOf(s)), bin,
                                   ReqOf(s).info.width, ReqOf(s).info.height)

\* generateTextures has returned to the call in slot s.
TexturesReturned(s) ==
  reqs[s].pc \in {"alpha", "hatch", "hatchTile", "threadTile", "render", "done"}

TextureCapacity == 1

\* C13 (as claimed): the texture map never retains more than N
\* configurations; storing into a full map evicts an older configuration.
C13_TextureCacheBounded == Len(globalTextureCache) <= TextureCapacity

\* The least alpha a layer can have at pixel i.  The edge layer is a
\* one-channel PNG, opaque everywhere; the rim layer is an opaque white frame,
\* taken here as restricted to its stitch mask; hatch and thread sheets are
\* tiles over a transparent frame, taken here as clear at the pixel.
LayerAlpha(layer, i) ==
  IF layer.kind = "edge" THEN 255
  ELSE IF layer.kind = "rim" THEN layer.mask[i]
  ELSE 0
\* Porter-Duff source-over alpha, in bytes: as + ab * (1 - as).
PorterDuffAlpha(ab, as) == as + (ab * (255 - as)) \div 255
\* The alpha of pixel i after layers k.. are composited over alpha a.
RECURSIVE AlphaAfter(_, _, _, _)
AlphaAfter(layers, k, i, a) ==
  IF k > Len(layers) THEN a
  ELSE AlphaAfter(layers, k + 1, i, PorterDuffAlpha(a, LayerAlpha(layers[k], i)))
OutputAlpha(output, i) == AlphaAfter(output.layers, 1, i, output.base[i].a)

\* C18 (as claimed): with preserveTransparency, every pixel whose input
\* alpha is 0 has output alpha 0 after hatch, thread, edge and rim layers
\* are composited.
C18_TransparencyPreserved ==
  \A s \in Slots :
    reqs[s].pc = "done" =>
      \A i \in 1..Len(reqs[s].output.base) :
        ReqOf(s).data[i].a = 0 => OutputAlpha(reqs[s].output, i) = 0

\* C23 (as claimed): the layer list handed to the compositor holds a
\* rim-stitch layer iff borderStitch is not false and threadThickness > 2,
\* and the mask of that layer is 255 at (x, y) iff RimBand is set there and
\* floor(x / max(4, 2T)) mod 2 = 0, and 0 elsewhere.
C23_RimStitchLayer ==
  \A s \in Slots :
    reqs[s].pc = "done" =>
      LET r == ReqOf(s)
          T == r.options.threadThickness
          layers == reqs[s].output.layers
          rims == {k \in 1..Len(layers) : layers[k].kind = "rim"}
      IN /\ (rims # {}) = (r.options.borderStitch /\ T > 2)
         /\ \A k \in rims : \A i \in 1..(r.info.width * r.info.height) :
              layers[k].mask[i] =
                IF RimBandFor(r)[i] # 0
                   /\ (((i - 1) % r.info.width) \div Max2(4, 2 * T)) % 2 = 0
                THEN 255 ELSE 0

\* The place of a layer kind in the claimed order.
LayerRank(kind) ==
  CASE kind = "hatch" -> 0 [] kind = "thread" -> 1 [] kind = "edge" -> 2
    [] kind = "rim" -> 3

\* C17: in the layer list of every call, at every point of its construction
\* and when it is handed to the compositor, the hatch layer precedes every
\* thread layer, thread layers come in strictly increasing bin (tile angle),
\* the edge layer follows all thread layers and the rim-stitch layer is last,
\* in both variants of compositeImage.
C17_LayerOrder ==
  \A s \in Slots :
    LET ops == reqs[s].compositeOps
    IN /\ \A i, j \in 1..Len(ops) :
            i < j =>
              /\ LayerRank(ops[i].kind) <= LayerRank(ops[j].kind)
              /\ LayerRank(ops[i].kind) = LayerRank(ops[j].kind) =>
                   /\ ops[i].kind = "thread"
                   /\ ops[i].sheet.tile.angle < ops[j].sheet.tile.angle
       /\ reqs[s].pc \in {"render", "done"} =>
            /\ \E i \in 1..Len(ops) : ops[i].kind = "edge"
            /\ HasRimLayer(variant, ReqOf(s).options) => ops[Len(ops)].kind = "rim"

\* A stride-2 call has handed over hatch, three thread layers, edge and rim
\* while the other call finished without hatch pattern or rim.
C17_Witness ==
  /\ variant = "stride2"
  /\ \E s, t \in Slots :
       /\ reqs[s].pc = "done"
       /\ Len(reqs[s].output.layers) = 6
       /\ reqs[s].output.layers[1].kind = "hatch"
       /\ reqs[s].output.layers[6].kind = "rim"
       /\ reqs[t].pc = "done"
       /\ reqs[t].output.layers[Len(reqs[t].output.layers)].kind = "edge"

\* .raw().toBuffer() of a 4-channel sheet: width * height * 4 bytes.
SheetBytes(sheet) == sheet.width * sheet.height * 4

\* C15: whatever a lookup can return is a fully populated buffer: every
\* tile-sheet entry holds the W*H*4 bytes of the frame its key names and
\* every mask entry holds W*H bytes, also while other calls are between their
\* lookup and their set; an entry is stored only once its buffer is computed.
C15_ReadCommitted ==
  /\ \A i \in 1..Len(tileSheetCache) :
       /\ SheetBytes(tileSheetCache[i].value) =
            tileSheetCache[i].key[3] * tileSheetCache[i].key[4] * 4
       /\ (tileSheetCache[i].key[1] = "thread") =
            (tileSheetCache[i].value.tile.kind = "thread")
  /\ \A i \in 1..Len(maskCache) :
       Len(maskCache[i].value) = maskCache[i].key[2] * maskCache[i].key[3]
  /\ \A s \in Slots :
       reqs[s].pc \in {"threadTile", "render", "done"} =>
         \A k \in 1..Len(reqs[s].compositeOps) :
           reqs[s].compositeOps[k].kind \in {"hatch", "thread"} =>
             /\ SheetBytes(reqs[s].compositeOps[k].sheet) = SheetBytes(NoSheet(2, 1))
             /\ Len(reqs[s].compositeOps[k].mask) = 2

\* One call awaits a thread sheet it missed while another call, also inside
\* compositeImage, has taken a sheet and a mask from the caches.
C15_Witness ==
  \E s, t \in Slots :
    /\ s # t
    /\ reqs[s].pc = "threadTile"
    /\ reqs[t].pc \in {"threadTile", "render"}
    /\ Len(reqs[t].compositeOps) > 0
    /\ Len(tileSheetCache) > 0
    /\ Len(maskCache) > 0

\* C29 (checked under SpecOrient): for every method and mode the bin count N
\* of computeOrientation is at most the number of thread tiles, so every bin
\* a pixel carries is one the full-bin compositor pushes a thread layer for.
C29_BinsWithinTiles ==
  orient.pc = "done" =>
    LET order == BinOrder("full", ThreadTileCount)
    IN /\ NumBins(orient.method, orient.mode) <= ThreadTileCount
       /\ \A i \in 1..Len(orient.result.orientationBins) :
            \E k \in 1..Len(order) : order[k] = orient.result.orientationBins[i]

\* The thread layers a call has pushed so far, in loop order: the k-th one
\* was pushed for bin BinOrder(...)[k].
ThreadLayersOf(s) ==
  SelectSeq(reqs[s].compositeOps, LAMBDA layer : layer.kind = "thread")

\* C27: within one compositeImage call the thread-layer masks used are
\* pairwise disjoint and each is {p : orientationBins[p] = b} of the call's
\* own orientation map, whatever other calls of the same W x H run meanwhile.
C27_MasksDisjointAndOwn ==
  \A s \in Slots :
    LET layers == ThreadLayersOf(s)
        order == BinOrder(variant, Len(reqs[s].textures.threadTextures))
    IN /\ \A k \in 1..Len(layers) :
            layers[k].mask = createOrientationMask(OrientationBinsOf(ReqOf(s)), order[k],
                               ReqOf(s).info.width, ReqOf(s).info.height)
       /\ \A k, m \in 1..Len(layers) :
            k # m => \A p \in 1..Len(layers[k].mask) :
                       layers[k].mask[p] = 0 \/ layers[m].mask[p] = 0

\* =========================================================================
\* SpecCache: the tile-sheet and mask caches under lookups spread over time
\* =========================================================================

\* ttl: 1000 * 60 * 5 and 1000 * 60 * 2 milliseconds; the clock counts minutes
TileTtl == 5
MaskTtl == 2

\* Frames looked up beyond the capacity of the cache.
MaxOverfill == 1
\* Minutes the clock runs past the ttl of the cache.
MaxPastTtl == 1
\* Lookups of frames that were looked up before.
MaxRepeats == 2

CacheOf(kind) == IF kind = "tiles" THEN tileSheetCache ELSE maskCache
MaxOf(kind) == IF kind = "tiles" THEN TileCacheMax ELSE MaskCacheMax
TtlOf(kind) == IF kind = "tiles" THEN TileTtl ELSE MaskTtl

\* The n-th frame of the workload: bin n % 6 of a frame n \div 6 + 1 wide and
\* one row high, whose orientation bins are all 0.
WorkInfo(n) ==
  [width |-> n \div ThreadTileCount + 1, height |-> 1, channels |-> 4,
   bin |-> n % ThreadTileCount]
WorkKey(kind, n) ==
  IF kind = "tiles"
  THEN SheetKey("thread", WorkInfo(n).bin, WorkInfo(n).width, WorkInfo(n).height)
  ELSE MaskKey(WorkInfo(n).bin, WorkInfo(n).width, WorkInfo(n).height)
\* What compositeImage computes for the frame on a miss.
WorkValue(kind, n) ==
  IF kind = "tiles"
  THEN ThreadSheetOf(SplitTextures(ComputeTextures(Options(3, "diagonal", TRUE)), 3),
                     WorkInfo(n).bin, WorkInfo(n))
  ELSE createOrientationMask([i \in 1..WorkInfo(n).width |-> 0], WorkInfo(n).bin,
                             WorkInfo(n).width, WorkInfo(n).height)

\* The workload state: the cache it exercises, the time, the number of frames
\* looked up so far, per frame the time of its last set (start) and the
\* number of the operation that last used it (used), and what the last
\* lookup met: the frame, whether get returned its entry and at which age,
\* whether the entry had expired, whether set found the cache full, the
\* frame whose entry set dropped (0: none) and the frame that was least
\* recently used when set was called.
WorkClock(kind) ==
  [ pc |-> "run", kind |-> kind, now |-> 0, frames |-> 0, start |-> <<>>,
    used |-> <<>>, ops |-> 0, repeats |-> 0, sawExpired |-> FALSE,
    last |-> [frame |-> 0, hit |-> FALSE, age |-> 0, expired |-> FALSE,
              full |-> FALSE, dropped |-> 0, lru |-> 0] ]

\* The frames whose entries a cache holds.
Resident(kind, cache) ==
  {n \in 1..clock.frames : CacheHas(cache, WorkKey(kind, n))}
\* isStale: the entry is older than the ttl.
IsStale(kind, n) == clock.now - clock.start[n] > TtlOf(kind)
\* The resident frame used longest ago, by the operation numbers (0: none).
LeastRecentlyUsed(kind, cache) ==
  IF Resident(kind, cache) = {} THEN 0
  ELSE CHOOSE n \in Resident(kind, cache) :
         \A m \in Resident(kind, cache) : clock.used[n] <= clock.used[m]

\* get(key): an expired entry is deleted and reported as a miss; a live
\* entry becomes the most recently used.
CacheGetHit(kind, cache, n) ==
  CacheHas(cache, WorkKey(kind, n)) /\ ~IsStale(kind, n)

\* let buf = cache.get(key); if (!buf) { buf = ...; cache.set(key, buf) }
LookupResult(kind, cache, n) ==
  LET hit == CacheGetHit(kind, cache, n)
      got == IF hit THEN CacheTouch(cache, WorkKey(kind, n))
             ELSE CacheWithout(cache, WorkKey(kind, n))
      put == IF hit THEN got
             ELSE CacheSet(got, WorkKey(kind, n), WorkValue(kind, n), MaxOf(kind))
      gone == Resident(kind, got) \ Resident(kind, put)
  IN [ cache |-> put,
       last |-> [ frame |-> n, hit |-> hit,
                  age |-> IF hit THEN clock.now - clock.start[n] ELSE 0,
                  expired |-> CacheHas(cache, WorkKey(kind, n)) /\ ~hit,
                  full |-> ~hit /\ Len(got) = MaxOf(kind),
                  dropped |-> IF gone = {} THEN 0 ELSE CHOOSE g \in gone : TRUE,
                  lru |-> IF hit THEN 0 ELSE LeastRecentlyUsed(kind, got) ] ]

SetAt(seq, n, v) ==
  [i \in 1..Max2(Len(seq), n) |-> IF i = n THEN v ELSE seq[i]]

Lookup(n) ==
  LET kind == clock.kind
      res == LookupResult(kind, CacheOf(kind), n)
  IN /\ IF kind = "tiles"
        THEN tileSheetCache' = res.cache /\ UNCHANGED maskCache
        ELSE maskCache' = res.cache /\ UNCHANGED tileSheetCache
     /\ clock' = [clock EXCEPT
          !.frames = Max2(clock.frames, n),
          !.start = IF res.last.hit THEN clock.start ELSE SetAt(clock.start, n, clock.now),
          !.used = SetAt(clock.used, n, clock.ops + 1),
          !.ops = clock.ops + 1,
          !.repeats = IF n <= clock.frames THEN clock.repeats + 1 ELSE clock.repeats,
          !.sawExpired = clock.sawExpired \/ res.last.expired,
          !.last = res.last]

\* Repeated lookups and the passing of time are explored once the cache is
\* within one entry of its capacity.
NearCapacity == Len(CacheOf(clock.kind)) >= MaxOf(clock.kind) - 1

\* A frame not seen before is composited.
LookupFresh ==
  /\ clock.pc = "run"
  /\ clock.frames < MaxOf(clock.kind) + MaxOverfill
  /\ Lookup(clock.frames + 1)

\* A frame seen before is composited again: the one whose entry is the least
\* or the most recent of the cache, or the first frame of the workload.
LookupAgain ==
  /\ clock.pc = "run"
  /\ NearCapacity
  /\ clock.repeats < MaxRepeats
  /\ \E n \in { m \in 1..clock.frames :
                  LET c == CacheOf(clock.kind)
                  IN \/ m = 1
                     \/ c[1].key = WorkKey(clock.kind, m)
                     \/ c[Len(c)].key = WorkKey(clock.kind, m) } :
       Lookup(n)

\* A minute passes.
Tick ==
  /\ clock.pc = "run"
  /\ NearCapacity
  /\ clock.now < TtlOf(clock.kind) + MaxPastTtl
  /\ clock' = [clock EXCEPT !.now = clock.now + 1]
  /\ UNCHANGED <<tileSheetCache, maskCache>>

CacheInit ==
  /\ quant = IdleQuant
  /\ orient = Idle
  /\ rim = Idle
  /\ tileSheetCache = <<>>
  /\ maskCache = <<>>
  /\ globalTextureCache = <<>>
  /\ reqs = <<>>
  /\ variant = "full"
  /\ clock \in {WorkClock(kind) : kind \in {"tiles", "masks"}}

CacheNext ==
  \/ LookupFresh /\ UNCHANGED <<quant, orient, rim, globalTextureCache, reqs, variant>>
  \/ LookupAgain /\ UNCHANGED <<quant, orient, rim, globalTextureCache, reqs, variant>>
  \/ Tick /\ UNCHANGED <<quant, orient, rim, globalTextureCache, reqs, variant>>

SpecCache == CacheInit /\ [][CacheNext]_vars

\* C14: the tile-sheet cache never holds more than 64 entries and the mask
\* cache never more than 128; a set that finds the cache full drops the entry
\* that was least recently used; and get never returns an entry older than
\* its ttl (5 minutes for tile sheets, 2 minutes for masks).
C14_BoundedLruWithTtl ==
  /\ Len(tileSheetCache) <= TileCacheMax
  /\ Len(maskCache) <= MaskCacheMax
  /\ clock.pc = "run" =>
       /\ clock.last.full =>
            clock.last.dropped # 0 /\ clock.last.dropped = clock.last.lru
       /\ clock.last.hit => clock.last.age <= TtlOf(clock.kind)

\* A full cache has just dropped its least recently used entry for a new
\* frame, after an earlier lookup had met an expired entry and a repeated
\* lookup had reordered the cache.
C14_Witness ==
  /\ clock.pc = "run"
  /\ Len(CacheOf(clock.kind)) = MaxOf(clock.kind)
  /\ clock.last.full
  /\ clock.last.dropped > 1
  /\ clock.sawExpired

\* =========================================================================
\* SpecRoute: one request from its entry point to its response
\* =========================================================================

\* The values EmbroideryOptions declares for its enumerated fields.
Allowed ==
  [ hatch |-> {"none", "diagonal", "cross"}, type |-> {"color", "fabric"},
    orientation |-> {"binned-8", "lic"}, edges |-> {"canny", "xdog"},
    mode |-> {"photo", "logo"} ]

\* The options a caller may send: each enumerated field left out, set to a
\* declared value or set to something else; type is background.type, left
\* out when the request has no background; hex is background.hex as a
\* sequence of characters, empty when left out.
RawOptions ==
  [ hatch : {"absent", "none", "cross", "zigzag"},
    type : {"absent", "color", "gradient"},
    orientation : {"absent", "lic", "spiral"},
    edges : {"absent", "xdog", "laplace"},
    mode : {"absent", "logo", "sketch"},
    hex : { <<>>, <<"#", "0", "0", "8", "0", "F", "F">>,
            <<"#", "1", "e", "0", "0", "0", "A">> },
    preserveTransparency : BOOLEAN ]

\* POST /filter/embroidery: the options object built from the parsed body.
ParseOptions(raw) ==
  [ hatch |-> IF raw.hatch = "absent" THEN "diagonal" ELSE raw.hatch,
    type |-> raw.type,
    orientation |-> IF raw.orientation = "absent" THEN "binned-8" ELSE raw.orientation,
    edges |-> IF raw.edges = "absent" THEN "canny" ELSE raw.edges,
    mode |-> IF raw.mode = "absent" THEN "photo" ELSE raw.mode,
    hex |-> raw.hex,
    preserveTransparency |-> raw.preserveTransparency,
    threadThickness |-> 3, densityScale |-> 10 ]

\* The 400 response the route sends for the options, "" when it sends none.
\* style.orientation, style.edges and style.mode are not looked at.
RouteError(options) ==
  IF options.hatch \notin Allowed.hatch THEN "Invalid hatch option"
  ELSE IF options.type # "absent" /\ options.type \notin Allowed.type
  THEN "Invalid background type"
  ELSE IF options.type = "color" /\ Len(options.hex) = 0
  THEN "Missing background color"
  ELSE ""

\* The value of a character as a base-16 digit, -1 when it is none.
HexDigitValue(c) ==
  LET lower == <<"0", "1", "2", "3", "4", "5", "6", "7", "8", "9",
                 "a", "b", "c", "d", "e", "f">>
      upper == <<"0", "1", "2", "3", "4", "5", "6", "7", "8", "9",
                 "A", "B", "C", "D", "E", "F">>
  IN IF \E i \in 1..16 : lower[i] = c \/ upper[i] = c
     THEN (CHOOSE i \in 1..16 : lower[i] = c \/ upper[i] = c) - 1
     ELSE -1
\* parseInt(chars, 16) of at most two characters: the leading digits, NaN
\* (here -1) when there is none.
ParseIntHex(chars) ==
  IF Len(chars) = 0 \/ HexDigitValue(chars[1]) < 0 THEN -1
  ELSE IF Len(chars) = 1 \/ HexDigitValue(chars[2]) < 0 THEN HexDigitValue(chars[1])
  ELSE 16 * HexDigitValue(chars[1]) + HexDigitValue(chars[2])

\* applyBackgroundLocal: the backdrop the composite is laid over.  With
\* preserveTransparency none; for no background or type color the colour
\* parsed from hex, each channel as parseInt(...) || default; otherwise the
\* fabric image, or the default colour when no fabric file is found.
BackdropOf(options, found) ==
  LET given == IF options.type = "absent" \/ Len(options.hex) = 0
               THEN <<"#", "E", "5", "E", "0", "D", "6">> ELSE options.hex
      hex == IF \E i \in 1..Len(given) : given[i] = "#"
             THEN LET k == CHOOSE i \in 1..Len(given) :
                             given[i] = "#" /\ \A j \in 1..(i - 1) : given[j] # "#"
                  IN SubSeq(given, 1, k - 1) \o SubSeq(given, k + 1, Len(given))
             ELSE given
      slice(a, b) == SubSeq(hex, a + 1, Min2(b, Len(hex)))
      orElse(n, d) == IF n <= 0 THEN d ELSE n
  IN IF options.preserveTransparency
     THEN [kind |-> "none", r |-> 0, g |-> 0, b |-> 0]
     ELSE IF options.type \in {"absent", "color"}
     THEN [kind |-> "color", r |-> orElse(ParseIntHex(slice(0, 2)), 229),
           g |-> orElse(ParseIntHex(slice(2, 4)), 224),
           b |-> orElse(ParseIntHex(slice(4, 6)), 214)]
     ELSE IF found THEN [kind |-> "fabric", r |-> 0, g |-> 0, b |-> 0]
     ELSE [kind |-> "color", r |-> 229, g |-> 224, b |-> 214]

\* The stages of processEmbroidery and, for each, the stages whose results
\* it is called with.
Stages ==
  {"normalize", "quantize", "edges", "orientation", "textures", "composite",
   "background", "warnings"}
Preds(stage) ==
  CASE stage = "normalize" -> {}
    [] stage = "quantize" -> {"normalize"}
    [] stage = "edges" -> {"quantize"}
    [] stage = "orientation" -> {"quantize"}
    [] stage = "textures" -> {"edges", "orientation"}
    [] stage = "composite" -> {"textures"}
    [] stage = "background" -> {"composite"}
    [] stage = "warnings" -> {"background"}

\* A call that does not await a stage before calling the next.
StageReadyUnordered(status, stage) ==
  /\ status[stage] = "pending"
  /\ \A p \in Preds(stage) : status[p] \in {"running", "done"}
\* A call may start the stage: every stage before it has completed.
StageReady(status, stage) ==
  /\ status[stage] = "pending"
  /\ \A p \in Preds(stage) : status[p] = "done"

\* The timings record once the stage has resolved: every awaited step adds
\* its entry; detectEdges and computeOrientation are awaited together and
\* add one entry when both have resolved; computeWarnings is not timed.
TimingsAfter(timings, status, stage) ==
  CASE stage = "normalize" -> timings \cup {"normalizeMs"}
    [] stage = "quantize" -> timings \cup {"quantizeMs"}
    [] stage = "edges" ->
         IF status["orientation"] = "done"
         THEN timings \cup {"edgesOrientationParallelMs"} ELSE timings
    [] stage = "orientation" ->
         IF status["edges"] = "done"
         THEN timings \cup {"edgesOrientationParallelMs"} ELSE timings
    [] stage = "textures" -> timings \cup {"texturesMs"}
    [] stage = "composite" -> timings \cup {"compositeMs"}
    [] stage = "background" -> timings \cup {"backgroundMs"}
    [] stage = "warnings" -> timings

\* A catch block that logs the total only.
EmittedTotalOnly(timings) == {"totalMs"}
\* timings.totalMs = ...; console.log / console.error({ ..., timings })
Emitted(timings) == timings \cup {"totalMs"}

\* processEmbroidery's result meta: palette and warnings beside the sizes.
ProcessMeta(palette, warnings) ==
  [ paletteSize |-> Len(palette), originalSize |-> [width |-> 2, height |-> 1],
    finalSize |-> [width |-> 2, height |-> 1],
    palette |-> palette, warnings |-> warnings ]

\* runEmbroidery's return: meta is built anew from paletteSize, originalSize
\* and finalSize of the pipeline's meta (processingTime is a clock reading).
RunEmbroideryMeta(meta) ==
  [ paletteSize |-> meta.paletteSize, originalSize |-> meta.originalSize,
    finalSize |-> meta.finalSize ]

\* The route's response headers for a worker result with the given meta.
ResponseHeaders(meta) ==
  {"Content-Type", "X-Processing-Ms"}
    \cup (IF "palette" \in DOMAIN meta THEN {"X-Palette"} ELSE {})
    \cup (IF "warnings" \in DOMAIN meta /\ Len(meta.warnings) > 0
          THEN {"X-Warnings"} ELSE {})

\* The request: how it entered (through the route or by a direct call of
\* processEmbroidery, as the bench scripts do), the options, the status of
\* every stage, what generateTextures returned, the timings record and what
\* of it was logged, the error a stage raised and the one processEmbroidery
\* threw, and the response.
RouteRequest(entry, raw) ==
  [ pc |-> IF entry = "route" THEN "received" ELSE "pipeline",
    entry |-> entry, raw |-> raw,
    options |-> IF entry = "route" THEN ParseOptions(raw)
                ELSE raw @@ [threadThickness |-> 3, densityScale |-> 10],
    status |-> [st \in Stages |-> "pending"],
    textures |-> NoTextures, textureError |-> "",
    timings |-> {}, logged |-> {}, error |-> "", thrown |-> "",
    backdrop |-> [kind |-> "none", r |-> 0, g |-> 0, b |-> 0],
    meta |-> ProcessMeta(<<>>, <<>>),
    result |-> RunEmbroideryMeta(ProcessMeta(<<>>, <<>>)), headers |-> {},
    response |-> [code |-> 0, error |-> ""] ]

RouteInit ==
  /\ quant = IdleQuant
  /\ orient = Idle
  /\ rim = Idle
  /\ tileSheetCache = <<>>
  /\ maskCache = <<>>
  /\ globalTextureCache = <<>>
  /\ variant = "full"
  /\ clock = Idle
  /\ reqs \in {RouteRequest("route", raw) : raw \in RawOptions}
       \cup {RouteRequest("direct", raw) :
               raw \in {r \in RawOptions :
                          \A f \in DOMAIN Allowed \ {"type"} : r[f] # "absent"}}

\* The route validates the options: a 400 response, or the worker is run.
ValidateOptions ==
  /\ reqs.pc = "received"
  /\ reqs' = IF RouteError(reqs.options) # ""
             THEN [reqs EXCEPT !.pc = "responded",
                     !.response = [code |-> 400, error |-> RouteError(reqs.options)]]
             ELSE [reqs EXCEPT !.pc = "pipeline"]
  /\ UNCHANGED globalTextureCache

\* processEmbroidery calls a stage.  computeOrientation is called in the same
\* turn as detectEdges, right after it.
StartStage(stage) ==
  /\ reqs.pc = "pipeline"
  /\ StageReady(reqs.status, stage)
  /\ stage = "orientation" => reqs.status["edges"] = "running"
  /\ reqs' = [reqs EXCEPT !.status[stage] = "running"]
  /\ UNCHANGED globalTextureCache

\* The awaited stage resolves.  generateTextures stores what it computed on a
\* miss; after computeWarnings the result is returned: to the caller itself,
\* or through runEmbroidery to the route, which sets the headers and sends.
\* The palette is one quantizeColors returned and the warnings are a list
\* computeWarnings can return.
FinishStage(stage) ==
  /\ reqs.pc = "pipeline"
  /\ reqs.status[stage] = "running"
  /\ stage = "edges" => reqs.status["orientation"] # "pending"
  /\ LET key == TextureCacheKey(reqs.options)
         hit == CacheHas(globalTextureCache, key)
         tex == IF hit
                THEN SplitTextures(CacheValue(globalTextureCache, key),
                                   reqs.options.threadThickness)
                ELSE SplitTextures(ComputeTextures(reqs.options),
                                   reqs.options.threadThickness)
     IN /\ globalTextureCache' =
             IF stage = "textures" /\ ~hit
             THEN MapSet(globalTextureCache, key, ComputeTextures(reqs.options))
             ELSE globalTextureCache
        /\ \E found \in BOOLEAN,
              warnings \in {<<>>, <<ThinStrokesWarning>>,
                            <<ThinStrokesWarning, DenseDetailWarning>>} :
           LET meta == ProcessMeta(<<Pixel(0, 0, 0, 255)>>, warnings)
           IN reqs' = [reqs EXCEPT
             !.status[stage] = "done",
             !.textures = IF stage = "textures" THEN tex ELSE @,
             !.backdrop = IF stage = "background"
                          THEN BackdropOf(reqs.options, found) ELSE @,
             !.timings = TimingsAfter(@, reqs.status, stage),
             !.logged = IF stage = "warnings" THEN Emitted(reqs.timings) ELSE @,
             !.pc = IF stage = "warnings" THEN "responded" ELSE @,
             !.meta = IF stage = "warnings" THEN meta ELSE @,
             !.result = IF stage = "warnings" /\ reqs.entry = "route"
                        THEN RunEmbroideryMeta(meta) ELSE @,
             !.headers = IF stage = "warnings" /\ reqs.entry = "route"
                         THEN ResponseHeaders(RunEmbroideryMeta(meta)) ELSE @,
             !.response = IF stage = "warnings"
                          THEN [code |-> 200, error |-> ""] ELSE @]

\* The awaited stage rejects (sharp fails on the data): processEmbroidery
\* logs the timings, rethrows the error it caught, and the route answers
\* 500.  generateTextures and computeWarnings draw and compute without
\* touching the image codec.
FailStage(stage) ==
  /\ reqs.pc = "pipeline"
  /\ reqs.status[stage] = "running"
  /\ stage \notin {"textures", "warnings"}
  /\ stage = "edges" => reqs.status["orientation"] # "pending"
  /\ reqs' = [reqs EXCEPT !.status[stage] = "failed", !.pc = "responded",
                !.error = stage, !.thrown = stage,
                !.logged = Emitted(reqs.timings),
                !.response = [code |-> 500, error |-> "Processing failed"]]
  /\ UNCHANGED globalTextureCache

RouteNext ==
  \/ ValidateOptions
       /\ UNCHANGED <<quant, orient, rim, tileSheetCache, maskCache, variant, clock>>
  \/ \E stage \in Stages : StartStage(stage)
       /\ UNCHANGED <<quant, orient, rim, tileSheetCache, maskCache, variant, clock>>
  \/ \E stage \in Stages : FinishStage(stage)
       /\ UNCHANGED <<quant, orient, rim, tileSheetCache, maskCache, variant, clock>>
  \/ \E stage \in Stages : FailStage(stage)
       /\ UNCHANGED <<quant, orient, rim, tileSheetCache, maskCache, variant, clock>>

SpecRoute == RouteInit /\ [][RouteNext]_vars

\* C16: within one request a stage has started only if every stage before it
\* has completed: quantizeColors before detectEdges and computeOrientation,
\* both of those before generateTextures, generateTextures before
\* compositeImage, then the background step, then computeWarnings; so no
\* stage starts after an earlier one failed.
C16_StageOrder ==
  reqs.pc \in {"pipeline", "responded"} =>
    \A stage \in Stages :
      reqs.status[stage] # "pending" =>
        \A p \in Preds(stage) : reqs.status[p] = "done"

\* detectEdges has failed while computeOrientation was still running, after
\* quantizeColors had completed.
C16_Witness ==
  /\ reqs.pc = "responded"
  /\ reqs.status["edges"] = "failed"
  /\ reqs.status["orientation"] = "running"
  /\ reqs.status["quantize"] = "done"
  /\ reqs.status["textures"] = "pending"

\* C19 (as claimed): once generateTextures has settled, a hatch outside
\* {none, diagonal, cross} has made it fail with "unknown hatch" and nothing
\* was stored in the texture map, and a valid hatch has made it return.
C19_UnknownHatchFails ==
  reqs.status["textures"] \notin {"pending", "running"} =>
    IF reqs.options.hatch \notin Allowed.hatch
    THEN /\ reqs.status["textures"] = "failed"
         /\ reqs.textureError = "unknown hatch"
         /\ Len(globalTextureCache) = 0
    ELSE reqs.status["textures"] = "done"

\* C20 (as claimed): a request sent to the route with a value outside the
\* declared set for hatch, background.type, style.orientation, style.edges
\* or style.mode never has a pipeline stage started and is answered with the
\* 400 of an unsupported option.
C20_UnknownEnumRejected ==
  (/\ reqs.entry = "route"
   /\ \E f \in DOMAIN Allowed : reqs.raw[f] \notin Allowed[f] \cup {"absent"}) =>
    /\ \A stage \in Stages : reqs.status[stage] = "pending"
    /\ reqs.pc # "pipeline"
    /\ reqs.pc = "responded" => reqs.response.code = 400

\* The stages that have an entry of their own in the timings record.
TimedAlone == {"normalize", "quantize", "textures", "composite", "background"}

\* C21 (as claimed): when a stage has thrown, the logged timings hold totalMs
\* and the timing of every stage that completed before the failure, the
\* error is rethrown and no result is returned.
C21_TimingsOfEveryStage ==
  (reqs.pc = "responded" /\ reqs.error # "") =>
    /\ "totalMs" \in reqs.logged
    /\ \A stage \in TimedAlone : reqs.status[stage] = "done" =>
         TimingsAfter({}, reqs.status, stage) \subseteq reqs.logged
    /\ reqs.status["edges"] = "done" =>
         "edgesOrientationParallelMs" \in reqs.logged
    /\ reqs.status["orientation"] = "done" =>
         "edgesOrientationParallelMs" \in reqs.logged
    /\ reqs.thrown = reqs.error
    /\ reqs.response.code # 200

\* C21 (amended): when a stage has thrown, the logged timings hold totalMs
\* and the timing of every awaited step that completed before the failure,
\* where detectEdges and computeOrientation are one step with one timing
\* that is present only when both completed; the error is rethrown and no
\* result is returned.
C21_TimingsOfEveryAwaitedStep ==
  (reqs.pc = "responded" /\ reqs.error # "") =>
    /\ "totalMs" \in reqs.logged
    /\ \A stage \in TimedAlone : reqs.status[stage] = "done" =>
         TimingsAfter({}, reqs.status, stage) \subseteq reqs.logged
    /\ (reqs.status["edges"] = "done" /\ reqs.status["orientation"] = "done") <=>
         "edgesOrientationParallelMs" \in reqs.logged
    /\ reqs.thrown = reqs.error
    /\ reqs.response.code # 200

\* compositeImage has thrown after five awaited steps completed.
C21_Witness ==
  /\ reqs.pc = "responded"
  /\ reqs.error = "composite"
  /\ reqs.logged =
       {"normalizeMs", "quantizeMs", "edgesOrientationParallelMs", "texturesMs",
        "totalMs"}

\* C22 (as claimed): once the background step has completed, with
\* preserveTransparency no backdrop was applied; without it, a background
\* {type: "color", hex: "#RRGGBB"} gave the backdrop r = 0xRR, g = 0xGG,
\* b = 0xBB, and no background gave the default #E5E0D6.
C22_BackdropColour ==
  reqs.status["background"] = "done" =>
    LET o == reqs.options
        byte(k) == 16 * HexDigitValue(o.hex[k]) + HexDigitValue(o.hex[k + 1])
    IN IF o.preserveTransparency THEN reqs.backdrop.kind = "none"
       ELSE IF o.type = "color" /\ Len(o.hex) = 7
       THEN reqs.backdrop = [kind |-> "color", r |-> byte(2), g |-> byte(4), b |-> byte(6)]
       ELSE o.type = "absent" =>
              reqs.backdrop = [kind |-> "color", r |-> 229, g |-> 224, b |-> 214]
\* C28: the metadata of the pipeline reaches the route unchanged: the palette
\* and every warning of processEmbroidery's meta are in the result
\* runEmbroidery returns, and a non-empty warnings list yields an X-Warnings
\* response header.
C28_MetaReachesCaller ==
  (reqs.pc = "responded" /\ reqs.entry = "route" /\ reqs.response.code = 200) =>
    /\ "palette" \in DOMAIN reqs.result /\ reqs.result.palette = reqs.meta.palette
    /\ "warnings" \in DOMAIN reqs.result /\ reqs.result.warnings = reqs.meta.warnings
    /\ Len(reqs.meta.warnings) > 0 => "X-Warnings" \in reqs.headers


\* =========================================================================
\* SpecDash: detectEdges dashes the edge map
\* =========================================================================

\* One-row edge maps: every pixel set, or exactly one pixel set.
EdgeMaps(w) ==
  {[i \in 1..w |-> 255]} \cup {[i \in 1..w |-> IF i = p THEN 255 ELSE 0] : p \in 1..w}

DashInit ==
  /\ quant = IdleQuant
  /\ orient = Idle
  /\ tileSheetCache = <<>>
  /\ maskCache = <<>>
  /\ globalTextureCache = <<>>
  /\ reqs = <<>>
  /\ variant = "full"
  /\ clock = Idle
  /\ rim \in { [pc |-> "dash", edgeMap |-> m, width |-> w, height |-> 1,
                threadThickness |-> T, stitched |-> <<>>, returned |-> <<>>] :
                 w \in 1..MaxEdgeWidth, m \in UNION {EdgeMaps(v) : v \in 1..MaxEdgeWidth},
                 T \in MinThickness..MaxThickness }
  /\ Len(rim.edgeMap) = rim.width

\* detectEdges fills stitched and returns it with the edge map itself.
DashStage ==
  /\ rim.pc = "dash"
  /\ rim' = [rim EXCEPT !.pc = "done",
               !.stitched = DashEdges(rim.edgeMap, rim.width, rim.height,
                                      rim.threadThickness),
               !.returned = rim.edgeMap]

DashNext ==
  \/ DashStage /\ UNCHANGED <<quant, orient, procVars, clock>>

SpecDash == DashInit /\ [][DashNext]_vars

\* C24 (as claimed): for every threadThickness T in [1, 10] the dashed edge
\* buffer is 255 at (x, y) iff the edge map is set there and
\* floor(x / T) mod 2 = 0, and 0 otherwise; the edge map is returned unchanged.
C24_DashByThickness ==
  rim.pc = "done" =>
    /\ rim.returned = rim.edgeMap
    /\ \A i \in 1..rim.width :
         rim.stitched[i] =
           IF rim.edgeMap[i] # 0 /\ ((i - 1) \div rim.threadThickness) % 2 = 0
           THEN 255 ELSE 0

\* C24 (amended): the dash length is max(2, T): the buffer is 255 at (x, y)
\* iff the edge map is set there and floor(x / max(2, T)) mod 2 = 0, and 0
\* otherwise; the edge map is returned unchanged.
C24_DashByStitchLength ==
  rim.pc = "done" =>
    /\ rim.returned = rim.edgeMap
    /\ Len(rim.stitched) = rim.width
    /\ \A x \in 0..(rim.width - 1) :
         (rim.stitched[x + 1] = 255) =
           (rim.edgeMap[x + 1] # 0
              /\ \E n \in 0..rim.width :
                   2 * n * Max2(2, rim.threadThickness) <= x
                   /\ x < (2 * n + 1) * Max2(2, rim.threadThickness))
    /\ \A x \in 0..(rim.width - 1) : rim.stitched[x + 1] \in {0, 255}

\* A fully set edge map of 21 pixels was dashed with thickness 10: pixels 0..9
\* are kept, 10..19 dropped, pixel 20 kept.
C24_Witness ==
  /\ rim.pc = "done"
  /\ rim.threadThickness = 10
  /\ rim.width = 21
  /\ \A i \in 1..21 : rim.edgeMap[i] = 255
  /\ rim.stitched[10] = 255 /\ rim.stitched[11] = 0 /\ rim.stitched[21] = 255

\* ---------------------------------------------------------------------------
\* seededRandom (edges.ts): a linear congruential generator over 32-bit states.
\* A state is held as two 16-bit limbs <<high, low>> so that every product
\* stays below 2^31.
\* ---------------------------------------------------------------------------
Limb == 65536
LcgMultiplier == <<25, 26125>>      \* 1664525 = 25 * 65536 + 26125
LcgIncrement == <<15470, 62303>>    \* 1013904223 = 15470 * 65536 + 62303
LowMask == 268435455                \* 0xfffffff

\* s = (s * 1664525 + 1013904223) >>> 0; the double product is below 2^53 and
\* therefore exact.
LcgStep(s) ==
  LET low == s[2] * LcgMultiplier[2] + LcgIncrement[2]
      high == s[1] * LcgMultiplier[2] + s[2] * LcgMultiplier[1]
                + LcgIncrement[1] + (low \div Limb)
  IN <<high % Limb, low % Limb>>

\* return (s & 0xfffffff) / 0xfffffff, kept as an exact fraction.
RandomValue(s) ==
  [num |-> (s[1] % 4096) * Limb + s[2], den |-> LowMask]

Seeds == {<<h, l>> : h \in {0, 9182, 30453, 65535},
                     l \in {0, 1, 42, 46880, 64389, 65535}}

\* seededRandom(seed): let s = seed >>> 0.
RandomInit ==
  /\ quant = IdleQuant
  /\ orient = Idle
  /\ rim = Idle
  /\ tileSheetCache = <<>>
  /\ maskCache = <<>>
  /\ globalTextureCache = <<>>
  /\ reqs = <<>>
  /\ variant = "full"
  /\ clock \in { [pc |-> "rand", seed |-> seed, s |-> seed, calls |-> 0,
                  returned |-> [num |-> 0, den |-> 1]] : seed \in Seeds }

\* One call of the returned closure.
RandomCall ==
  /\ clock.pc = "rand"
  /\ clock.calls < MaxCalls
  /\ clock' = [clock EXCEPT !.s = LcgStep(clock.s),
                 !.calls = @ + 1,
                 !.returned = RandomValue(LcgStep(clock.s))]

RandomNext ==
  \/ RandomCall /\ UNCHANGED <<quant, orient, rim, procVars>>

SpecRandom == RandomInit /\ [][RandomNext]_vars

\* The range half of C25 taken alone: 0 <= r < 1 at every call.
UnitRange ==
  (clock.pc = "rand" /\ clock.calls > 0) =>
    (0 <= clock.returned.num /\ clock.returned.num < clock.returned.den)

\* C25: every value r returned by the generator satisfies 0 <= r < 1 (1 is
\* never returned) and is taken from the high-order bits of the state: the
\* integer that is scaled into r is the top 28 bits of s.
C25_UnitRangeFromHighBits ==
  /\ UnitRange
  /\ (clock.pc = "rand" /\ clock.calls > 0) =>
       clock.returned.num = clock.s[1] * 4096 + (clock.s[2] \div 16)

\* ---------------------------------------------------------------------------
\* SpecDownscale: the sizes of computeOrientation's analysis buffers
\* ---------------------------------------------------------------------------
SourceSizes == {1, 2, 300, 301, 400, 401, 800, 2000}

DownscaleInit ==
  /\ quant = IdleQuant
  /\ rim = Idle
  /\ tileSheetCache = <<>>
  /\ maskCache = <<>>
  /\ globalTextureCache = <<>>
  /\ reqs = <<>>
  /\ variant = "full"
  /\ clock = Idle
  /\ orient \in { [ pc |-> "downscale", info |-> [width |-> w, height |-> h],
                    mode |-> mo,
                    downscaledInfo |-> [width |-> 0, height |-> 0],
                    grayInfo |-> [width |-> 0, height |-> 0],
                    gxLength |-> 0 ] :
                    w \in SourceSizes, h \in SourceSizes, mo \in Modes }

\* downscaledInfo is declared as min(W, A) x min(H, A); grayBuffer is what
\* resize(downscaledInfo.width, downscaledInfo.height, { fit: 'inside',
\* withoutEnlargement: true }) returns: the source itself when it fits, else
\* the largest size of the source's aspect ratio inside the box.
DownscaleStage ==
  /\ orient.pc = "downscale"
  /\ LET a == AnalysisSize(orient.mode)
         dw == Min2(orient.info.width, a)
         dh == Min2(orient.info.height, a)
     IN orient' = [orient EXCEPT
          !.pc = "convolve",
          !.downscaledInfo = [width |-> dw, height |-> dh],
          !.grayInfo = IF orient.info.width <= dw /\ orient.info.height <= dh
                       THEN [width |-> orient.info.width, height |-> orient.info.height]
                       ELSE FitInside(orient.info.width, orient.info.height, dw, dh)]

\* The two convolutions read grayBuffer as downscaledInfo.width x
\* downscaledInfo.height and return one byte per declared pixel; gx is the
\* Int16Array view of those bytes, byteLength / 2 elements.  When grayBuffer
\* is not of the declared size the codec either rejects the input, and
\* computeOrientation throws, or reads what is there.
ConvolveStage ==
  /\ orient.pc = "convolve"
  /\ \E rejected \in BOOLEAN :
       /\ rejected => orient.grayInfo # orient.downscaledInfo
       /\ orient' = [orient EXCEPT
            !.pc = IF rejected THEN "failed" ELSE "done",
            !.gxLength = IF rejected THEN 0
                         ELSE (orient.downscaledInfo.width
                                 * orient.downscaledInfo.height) \div 2]

DownscaleNext ==
  \/ DownscaleStage /\ UNCHANGED <<quant, rim, procVars, clock>>
  \/ ConvolveStage /\ UNCHANGED <<quant, rim, procVars, clock>>

SpecDownscale == DownscaleInit /\ [][DownscaleNext]_vars

\* The size half of C30 taken alone: the declared analysis size is the size
\* of the resized buffer.
DeclaredIsResized ==
  orient.pc \in {"convolve", "done", "failed"} =>
    orient.downscaledInfo = orient.grayInfo

\* C30: for every source size and both modes the size declared for the
\* analysis buffer, min(W, A) x min(H, A), is the size of the fit-inside
\* resize output, and gx, gy have one element per analysis pixel.
C30_AnalysisBufferSize ==
  /\ DeclaredIsResized
  /\ orient.pc \in {"done", "failed"} =>
       /\ orient.pc = "done"
       /\ orient.gxLength = orient.downscaledInfo.width * orient.downscaledInfo.height

====
